---- MODULE Spec2Model ----
(***************************************************************************)
(* A model of the PCAP compaction pipeline (src/web/pcap_compactor):       *)
(* the aggregator shard (pipeline/grouping.py), the per-packet feature     *)
(* update (pipeline/features.py), the scan gate (pipeline/scan.py), the    *)
(* segment validator (intake/validator.py), the synchronous emitter        *)
(* (pipeline/emitter.py) and the hourly orchestration that wires them,     *)
(* and of the rolling capture of the web application                       *)
(* (src/web/netapp/managers/sniffer_manager.py, packet_sniffer.py).        *)
(*                                                                         *)
(* Python values are modelled as follows.                                  *)
(*   - a dict is a sequence of entries in insertion order;                 *)
(*   - Optional[int] is a sequence of length 0 (None) or 1;                *)
(*   - a payload preview is a string, "" standing for None and b"";      *)
(*   - timestamps are integers (seconds).                                  *)
(***************************************************************************)
EXTENDS Integers, Sequences, FiniteSets, TLC

\* ---------------------------------------------------------------- bounds

\* Largest timestamp an input packet carries.
MaxTs == 3

\* Number of packets routed through the shard in one behaviour of SpecShard.
MaxPkts == 4

\* Number of packets the scan gate observes in one behaviour of SpecGate.
MaxObs == 4

\* Number of packets the segments of one run_hour call hold in total.
MaxRunPkts == 3

\* Largest number of segments the source yields for one run_hour call.
MaxSegs == 2
MaxTokens == 3
MaxBudget == 3
\* Previews a direction is offered beyond the cap of the buffer.
MaxOver == 1

\* The values idle_split_seconds is drawn from (config.py: any integer).
IdleChoices == {1, 2}

\* --------------------------------------------------------------- helpers

Range(s) == { s[i] : i \in 1..Len(s) }

RECURSIVE SumSeq(_)
SumSeq(s) == IF s = <<>> THEN 0 ELSE Head(s) + SumSeq(Tail(s))

\* ------------------------------------------------------------------ DTOs

IPs == {"10.0.0.1", "10.0.0.2", "10.0.0.3", "10.0.0.4", "10.0.0.5"}

\* dto.py GroupKey: the five-tuple root, without the source port.
GroupKey(src_ip, dst_ip, dst_port, transport, service) ==
    [src_ip |-> src_ip, dst_ip |-> dst_ip, dst_port |-> dst_port,
     transport |-> transport, service |-> service]

\* dto.py PacketRecord.
PacketRecord(ts, src_ip, dst_ip, src_port, dst_port, transport, tcp_flags, length, payload_preview) ==
    [ts |-> ts, src_ip |-> src_ip, dst_ip |-> dst_ip, src_port |-> src_port,
     dst_port |-> dst_port, transport |-> transport, tcp_flags |-> tcp_flags,
     length |-> length, payload_preview |-> payload_preview]

\* features.py TCP flag bitmasks.
_TCP_FIN == 1
_TCP_SYN == 2
_TCP_RST == 4
_TCP_ACK == 16

\* flags & mask, for a mask that is one bit.
BitSet(flags, mask) == (flags \div mask) % 2 = 1

\* features.py: at most 12 previews are kept per aggregate and direction.
_MAX_PREVIEWS_PER_DIR == 12

\* ------------------------------------------------------------- variables

VARIABLES
    idle,        \* AggregatorShard._idle
    open,        \* AggregatorShard._open: entries in insertion order
    finalized,   \* AggregatorShard._finalized
    returned,    \* the list the last finalize_all call returned
    routed,      \* history: <<key, ts>> of each packet routed since the
                 \* shard was built or last finalized
    closed,      \* history: the value of routed when finalize_all last ran
    npkts,       \* packets routed so far in this behaviour
    threshold,   \* ScanGate._threshold
    by_src,      \* ScanGate._by_src: entries in insertion order
    split,       \* what the last split_repetitive_vs_outliers call returned
    observed,    \* history: <<key.src_ip, key.dst_ip>> of every observation
    nobs,        \* packets observed so far in this behaviour
    pc,          \* run_hour: where the run stands
    seg_i,       \* run_hour: segments taken from the source so far
    metrics,     \* run_hour: the metrics counters
    sink,        \* the calls the EventSinkPort has received, in order
    run,         \* history of the run: segments that validated, segments
                 \* whose stream failed, packets processed from segments
                 \* fetched after such a failure, aggregates the shard held
                 \* at hour end
    given,       \* a function studied on its own: what it has been given
    got,         \* a function studied on its own: what it has produced
    active,      \* SnifferManager.active
    error,       \* SnifferManager.error: TRUE when it holds a message
    sniffer,     \* SnifferManager.sniffer: 0 for None, or the number of the
                 \* PacketSniffer it refers to
    stop_sniffing, \* stop_sniffing of each PacketSniffer made so far
    threads,     \* the runner threads start() has spawned: where each
                 \* stands, and the sniffer whose capture_packets it is in
    stopped,     \* history: stop() has signalled a stop and no start() has
                 \* started a capture since
    late         \* history: a capture segment was begun while stopped was TRUE

shardVars == <<idle, open, finalized, returned, routed, closed, npkts>>

gateVars == <<threshold, by_src, split, observed, nobs>>

runVars == <<pc, seg_i, metrics, sink, run>>

callVars == <<given, got>>

sniffVars == <<active, error, sniffer, stop_sniffing, threads, stopped, late>>

vars == <<shardVars, gateVars, runVars, callVars, sniffVars>>

\* The sniffer manager is not used: it stays as it is constructed.
SnifferIdle ==
    /\ active = FALSE
    /\ error = FALSE
    /\ sniffer = 0
    /\ stop_sniffing = <<>>
    /\ threads = <<>>
    /\ stopped = FALSE
    /\ late = FALSE

\* --------------------------------------------------- grouping.py, shard

\* A buggy direction: a packet of neither direction is counted as "dn".
group_direction_dn_otherwise(pkt, key) ==
    IF pkt.src_ip = key.src_ip /\ pkt.dst_ip = key.dst_ip THEN "up" ELSE "dn"

\* grouping.py group_direction.
group_direction(pkt, key) ==
    IF pkt.src_ip = key.src_ip /\ pkt.dst_ip = key.dst_ip THEN "up"
    ELSE IF pkt.src_ip = key.dst_ip /\ pkt.dst_ip = key.src_ip THEN "dn"
    ELSE "up"

\* grouping.py AggregatorShard._new_aggregate.  payload_up / payload_dn are
\* the _payload_up / _payload_dn attributes features.py attaches; an absent
\* attribute and an empty list are the same empty sequence.
_new_aggregate(key, ts) ==
    [key |-> key, first_ts |-> ts, last_ts |-> ts,
     pkts_up |-> 0, pkts_dn |-> 0, bytes_up |-> 0, bytes_dn |-> 0,
     tcp_flags |-> [syn |-> 0, ack |-> 0, rst |-> 0, fin |-> 0],
     http_uri_tokens |-> <<>>, ftp_cmd_counts |-> <<>>, smb_cmd_counts |-> <<>>,
     payload_up |-> <<>>, payload_dn |-> <<>>]

\* Position of key's entry in the dict, 0 when absent (self._open.get(key)).
EntryIndex(d, key) ==
    IF \E i \in 1..Len(d) : d[i].key = key
    THEN CHOOSE i \in 1..Len(d) : d[i].key = key
    ELSE 0

\* A buggy roll test: a packet that far in the past rolls as well.
IdleExceeded_either_way(ts, last_ts, idl) ==
    ts - last_ts > idl \/ last_ts - ts > idl

\* A buggy roll test: rolls as soon as the gap reaches idle_split_seconds.
IdleExceeded_at_idle(ts, last_ts, idl) == ts - last_ts >= idl

\* grouping.py get_or_create, the rolling rule: ts - agg.last_ts > self._idle.
IdleExceeded(ts, last_ts, idl) == ts - last_ts > idl

\* A buggy roll: the old slice is moved to the finalized list but the new
\* slice is added beside it instead of taking its place in the dict.
get_or_create_keeps_old(op, fin, idl, key, ts) ==
    LET i == EntryIndex(op, key) IN
    IF i = 0
    THEN [open |-> Append(op, _new_aggregate(key, ts)), finalized |-> fin]
    ELSE IF IdleExceeded(ts, op[i].last_ts, idl)
         THEN [open |-> Append(op, _new_aggregate(key, ts)),
               finalized |-> Append(fin, op[i])]
         ELSE [open |-> op, finalized |-> fin]

\* A buggy roll: the new slice takes the place of the old one, which is
\* not kept.
get_or_create_forgets_rolled(op, fin, idl, key, ts) ==
    LET i == EntryIndex(op, key) IN
    IF i = 0
    THEN [open |-> Append(op, _new_aggregate(key, ts)), finalized |-> fin]
    ELSE IF IdleExceeded(ts, op[i].last_ts, idl)
         THEN [open |-> [op EXCEPT ![i] = _new_aggregate(key, ts)],
               finalized |-> fin]
         ELSE [open |-> op, finalized |-> fin]

\* grouping.py AggregatorShard.get_or_create: the shard's dict and list after
\* the call; the aggregate it returns is the entry of key in .open.
get_or_create(op, fin, idl, key, ts) ==
    LET i == EntryIndex(op, key) IN
    IF i = 0
    THEN [open |-> Append(op, _new_aggregate(key, ts)), finalized |-> fin]
    ELSE IF IdleExceeded(ts, op[i].last_ts, idl)
         THEN [open |-> [op EXCEPT ![i] = _new_aggregate(key, ts)],
               finalized |-> Append(fin, op[i])]
         ELSE [open |-> op, finalized |-> fin]

\* A buggy finalize_all: returns the rolled slices and forgets the open ones.
finalize_all_drops_open(op, fin) ==
    [open |-> <<>>, finalized |-> <<>>, out |-> fin]

\* A buggy finalize_all: the finalized list is returned but not emptied.
finalize_all_keeps_list(op, fin) ==
    [open |-> <<>>, finalized |-> fin \o op, out |-> fin \o op]

\* grouping.py AggregatorShard.finalize_all: open aggregates are appended to
\* the finalized list in dict order, both containers are emptied, the list is
\* returned.
finalize_all(op, fin) ==
    [open |-> <<>>, finalized |-> <<>>, out |-> fin \o op]

\* ----------------------------------------------------------- features.py

\* A buggy time-bound update: the two comparisons are exchanged.
ExtendSpan_swapped(agg, ts) ==
    LET a1 == IF ts > agg.first_ts THEN [agg EXCEPT !.first_ts = ts] ELSE agg
    IN  IF ts < a1.last_ts THEN [a1 EXCEPT !.last_ts = ts] ELSE a1

\* features.py update_aggregate, "Update time bounds".
ExtendSpan(agg, ts) ==
    LET a1 == IF ts < agg.first_ts THEN [agg EXCEPT !.first_ts = ts] ELSE agg
    IN  IF ts > a1.last_ts THEN [a1 EXCEPT !.last_ts = ts] ELSE a1

\* A buggy preview buffer: at the cap the oldest preview makes room.
StashPreview_evicts(buf, preview) ==
    IF Len(buf) < _MAX_PREVIEWS_PER_DIR
    THEN Append(buf, preview)
    ELSE Append(Tail(buf), preview)

\* features.py update_aggregate, the preview buffer of one direction:
\* if len(buf) < _MAX_PREVIEWS_PER_DIR: buf.append(pkt.payload_preview).
StashPreview(buf, preview) ==
    IF Len(buf) < _MAX_PREVIEWS_PER_DIR THEN Append(buf, preview) ELSE buf

\* features.py update_aggregate.
update_aggregate(agg, pkt, direction) ==
    LET a2 == ExtendSpan(agg, pkt.ts)
        a3 == IF direction = "up"
              THEN [a2 EXCEPT !.pkts_up = @ + 1, !.bytes_up = @ + pkt.length]
              ELSE [a2 EXCEPT !.pkts_dn = @ + 1, !.bytes_dn = @ + pkt.length]
        a4 == IF pkt.tcp_flags # <<>>
              THEN LET flags == pkt.tcp_flags[1] IN
                   [a3 EXCEPT
                      !.tcp_flags.syn = IF BitSet(flags, _TCP_SYN) THEN @ + 1 ELSE @,
                      !.tcp_flags.ack = IF BitSet(flags, _TCP_ACK) THEN @ + 1 ELSE @,
                      !.tcp_flags.rst = IF BitSet(flags, _TCP_RST) THEN @ + 1 ELSE @,
                      !.tcp_flags.fin = IF BitSet(flags, _TCP_FIN) THEN @ + 1 ELSE @]
              ELSE a3
    IN  IF pkt.payload_preview # ""
        THEN IF direction = "up"
             THEN [a4 EXCEPT !.payload_up = StashPreview(@, pkt.payload_preview)]
             ELSE [a4 EXCEPT !.payload_dn = StashPreview(@, pkt.payload_preview)]
        ELSE a4

\* One packet routed to key: the aggregate get_or_create returns is updated
\* in place (it is the object the dict entry holds).
RouteInto(op, fin, idl, pkt, key) ==
    LET r == get_or_create(op, fin, idl, key, pkt.ts)
        i == EntryIndex(r.open, key)
    IN  [open |-> [r.open EXCEPT
                     ![i] = update_aggregate(@, pkt, group_direction(pkt, key))],
         finalized |-> r.finalized]

\* ---------------------------------------------------- scan.py, ScanGate

\* scan.py ScanGate.__init__: sample_targets_cap.
SAMPLE_TARGETS_CAP == 20

_SourceStats(src) ==
    [src |-> src, unique_dsts |-> {}, unique_ports |-> {},
     syn_only_pkts |-> 0, tcp_pkts |-> 0, sample_targets |-> <<>>]

SrcIndex(by, src) ==
    IF \E i \in 1..Len(by) : by[i].src = src
    THEN CHOOSE i \in 1..Len(by) : by[i].src = src
    ELSE 0

\* scan.py ScanGate.observe_packet.
observe_packet(by, pkt, key) ==
    LET src == key.src_ip
        by1 == IF SrcIndex(by, src) = 0 THEN Append(by, _SourceStats(src)) ELSE by
        i == SrcIndex(by1, src)
        s1 == [by1[i] EXCEPT
                 !.unique_dsts = @ \cup {key.dst_ip},
                 !.unique_ports = @ \cup {key.dst_port},
                 !.sample_targets =
                     IF Len(@) < SAMPLE_TARGETS_CAP
                     THEN Append(@, <<key.dst_ip, key.dst_port>>) ELSE @]
        s2 == IF pkt.tcp_flags # <<>>
              THEN LET flags == pkt.tcp_flags[1] IN
                   [s1 EXCEPT
                      !.tcp_pkts = @ + 1,
                      !.syn_only_pkts =
                          IF BitSet(flags, _TCP_SYN) /\ ~BitSet(flags, _TCP_ACK)
                          THEN @ + 1 ELSE @]
              ELSE s1
    IN  [by1 EXCEPT ![i] = s2]

\* A buggy candidates: a source reaching the threshold is a candidate.
candidates_at_threshold(by, thr) ==
    LET hit == SelectSeq(by, LAMBDA s : Cardinality(s.unique_dsts) >= thr)
    IN  [i \in 1..Len(hit) |-> hit[i].src]

\* scan.py ScanGate.candidates: the sources over the threshold, in dict order.
candidates(by, thr) ==
    LET hit == SelectSeq(by, LAMBDA s : Cardinality(s.unique_dsts) > thr)
    IN  [i \in 1..Len(hit) |-> hit[i].src]

\* A buggy ratio: the quotient is formed whether or not TCP was seen.
SynOnlyRatio_unguarded(s) == <<s.syn_only_pkts, s.tcp_pkts>>

\* syn_only_ratio as the fraction <<numerator, denominator>>; 0.0 is <<0, 1>>.
SynOnlyRatio(s) ==
    IF s.tcp_pkts > 0 THEN <<s.syn_only_pkts, s.tcp_pkts>> ELSE <<0, 1>>

\* dto.py ScanSummary, as split_repetitive_vs_outliers builds it.
ScanSummary(s) ==
    [src_ip |-> s.src, window |-> <<0, 0>>,
     unique_dsts |-> Cardinality(s.unique_dsts),
     unique_ports |-> Cardinality(s.unique_ports),
     syn_only_ratio |-> SynOnlyRatio(s),
     sample_targets |-> s.sample_targets]

\* The labellings IsolationForest.fit_predict can return for n points:
\* 1 (inlier) or -1 (outlier) for each.
Labellings(n) == [1..n -> {1, -1}]

\* A buggy fallback test: one candidate is too few, two are enough.
TooFewPoints_below_two(n) == n < 2

\* scan.py split_repetitive_vs_outliers: "if len(X) < 3".
TooFewPoints(n) == n < 3

\* A buggy outlier branch: every candidate is added to the outliers.
OutlierSources_all(cands, labels) == Range(cands)

\* scan.py split_repetitive_vs_outliers, the else branch of "if lbl == 1".
OutlierSources(cands, labels) ==
    { cands[i] : i \in { j \in 1..Len(cands) : labels[j] # 1 } }

\* scan.py split_repetitive_vs_outliers, repetitive_sources.add(src).
RepetitiveSources(cands, labels) ==
    { cands[i] : i \in { j \in 1..Len(cands) : labels[j] = 1 } }

\* A buggy summary loop: a summary is appended for every candidate.
RepetitiveSummaries_all(by, cands, labels) ==
    [i \in 1..Len(cands) |-> ScanSummary(by[SrcIndex(by, cands[i])])]

\* scan.py split_repetitive_vs_outliers, repetitive_summaries.append(...):
\* one summary per candidate labelled 1, in candidate order.
RepetitiveSummaries(by, cands, labels) ==
    LET rep == SelectSeq([i \in 1..Len(cands) |-> i], LAMBDA i : labels[i] = 1)
    IN  [i \in 1..Len(rep) |-> ScanSummary(by[SrcIndex(by, cands[rep[i]])])]

\* scan.py ScanGate.split_repetitive_vs_outliers.  labels is what fit_predict
\* returns when it is called; fitted tells whether it was called.
split_repetitive_vs_outliers(by, thr, labels) ==
    LET cands == candidates(by, thr)
        n == Len(cands)
    IN  IF n = 0
        THEN [summaries |-> <<>>, source_ips |-> {}, outliers |-> {}, fitted |-> FALSE]
        ELSE IF TooFewPoints(n)
        THEN [summaries |-> <<>>, source_ips |-> {}, outliers |-> Range(cands),
              fitted |-> FALSE]
        ELSE [summaries |-> RepetitiveSummaries(by, cands, labels),
              source_ips |-> RepetitiveSources(cands, labels),
              outliers |-> OutlierSources(cands, labels),
              fitted |-> TRUE]

\* ------------------------------------------------- intake/validator.py

\* A file as validate_segment sees it: whether os.stat finds it, its size and
\* its leading bytes (at most four are looked at).
File(exists, size, magic) == [exists |-> exists, size |-> size, magic |-> magic]

MAGIC_PCAP_USEC_BE == <<161, 178, 195, 212>>
MAGIC_PCAP_USEC_LE == <<212, 195, 178, 161>>
MAGIC_PCAP_NSEC_BE == <<161, 178, 60, 77>>
MAGIC_PCAP_NSEC_LE == <<77, 60, 178, 161>>
MAGIC_PCAPNG == <<10, 13, 13, 10>>
MAGIC_GZIP == <<31, 139>>
MAGIC_ZSTD == <<40, 181, 47, 253>>

\* head[:n]
Prefix(head, n) == SubSeq(head, 1, IF Len(head) < n THEN Len(head) ELSE n)

_looks_like_uncompressed_pcap(head) ==
    IF Len(head) < 4 THEN FALSE
    ELSE IF Prefix(head, 4) \in {MAGIC_PCAP_USEC_BE, MAGIC_PCAP_USEC_LE,
                                 MAGIC_PCAP_NSEC_BE, MAGIC_PCAP_NSEC_LE} THEN TRUE
    ELSE IF Prefix(head, 4) = MAGIC_PCAPNG THEN TRUE
    ELSE FALSE

_looks_like_gzip(head) == Len(head) >= 2 /\ Prefix(head, 2) = MAGIC_GZIP

_looks_like_zstd(head) == Len(head) >= 4 /\ Prefix(head, 4) = MAGIC_ZSTD

\* validator.py validate_segment, for a file that stays as it is and can be
\* opened for reading while the call runs.
validate_segment(file, compressor) ==
    IF ~file.exists THEN FALSE
    ELSE IF file.size < 24 THEN FALSE
    ELSE LET head == file.magic IN
         IF compressor = "none" THEN _looks_like_uncompressed_pcap(head)
         ELSE IF compressor = "gzip" THEN _looks_like_gzip(head)
         ELSE IF compressor = "zstd" THEN _looks_like_zstd(head)
         ELSE FALSE

\* validator.py _read_head: open(path, "rb") and read.  access is what the
\* file is when it is opened: "ok", "denied" (no permission to read) or
\* "removed" (deleted since os.stat); in the last two open raises and the
\* result is <<>>, otherwise it is <<head>>.
_read_head(file, access) ==
    IF access = "ok" THEN <<file.magic>> ELSE <<>>

\* validator.py validate_segment with the file as it is at each of its two
\* accesses: "true", "false", or "raises" when the exception of _read_head,
\* which no handler encloses, leaves the function.
validate_segment_outcome(file, compressor, access) ==
    IF ~file.exists THEN "false"
    ELSE IF file.size < 24 THEN "false"
    ELSE IF _read_head(file, access) = <<>> THEN "raises"
    ELSE IF validate_segment(file, compressor) THEN "true" ELSE "false"

\* ------------------------------------------ windowing.py, features.py

\* A buggy window: the upper bound belongs to it.
in_window_inclusive(ts, window_start, window_end) ==
    window_start <= ts /\ ts <= window_end

\* windowing.py in_window.
in_window(ts, window_start, window_end) == window_start <= ts /\ ts < window_end

\* features.py finalize_aggregate.
finalize_aggregate(agg) ==
    [duration_s |-> IF agg.last_ts - agg.first_ts > 0
                    THEN agg.last_ts - agg.first_ts ELSE 0,
     counts |-> [pkts_up |-> agg.pkts_up, pkts_dn |-> agg.pkts_dn,
                 bytes_up |-> agg.bytes_up, bytes_dn |-> agg.bytes_dn],
     flags |-> agg.tcp_flags]

\* ------------------------------------------------- pipeline/emitter.py

\* emitter.py EmissionQueue.emit_group: one sink.on_group call.
emit_group(snk, record) == Append(snk, [call |-> "on_group", arg |-> record])

\* emitter.py EmissionQueue.emit_scan: one sink.on_scan call.
emit_scan(snk, summary) == Append(snk, [call |-> "on_scan", arg |-> summary])

\* ------------------------------------------------- specification SpecGate
\* One ScanGate driven through its interface by an arbitrary caller.

\* The values threshold_unique_dsts is drawn from (config.py: any integer).
ThresholdChoices == {0, 1}

GateSources == {"10.0.0.1", "10.0.0.2", "10.0.0.3"}

GateTargets == {"10.0.0.4", "10.0.0.5"}

\* A TCP SYN packet from every source to every target, and one UDP packet.
GatePackets ==
    { PacketRecord(0, s, d, 40000, 80, "tcp", <<_TCP_SYN>>, 1, "")
        : s \in GateSources, d \in GateTargets }
    \cup
    { PacketRecord(0, "10.0.0.1", "10.0.0.4", 40000, 53, "udp", <<>>, 1, "") }

\* grouping.py infer_service, on the ports of the model.
infer_service(dst_port) ==
    CASE dst_port \in {80, 8080} -> "http"
      [] dst_port = 21 -> "ftp"
      [] dst_port = 445 -> "smb"
      [] dst_port = 22 -> "ssh"
      [] dst_port = 53 -> "dns"
      [] OTHER -> "unknown"

\* A buggy key: the flow's five-tuple, source port included.
KeyOf_with_src_port(pkt) ==
    [src_ip |-> pkt.src_ip, dst_ip |-> pkt.dst_ip, dst_port |-> pkt.dst_port,
     transport |-> pkt.transport, service |-> infer_service(pkt.dst_port),
     src_port |-> pkt.src_port]

\* The key a packet is routed under: its own five-tuple.
KeyOf(pkt) ==
    GroupKey(pkt.src_ip, pkt.dst_ip, pkt.dst_port, pkt.transport,
             infer_service(pkt.dst_port))

NoSplit == [summaries |-> <<>>, source_ips |-> {}, outliers |-> {}, fitted |-> FALSE,
            called |-> FALSE]

GateInit ==
    /\ threshold \in ThresholdChoices
    /\ by_src = <<>>
    /\ split = NoSplit
    /\ observed = {}
    /\ nobs = 0

\* observe_packet(pkt, key), for a packet and the key it is routed under.
\* The value a split returned describes the gate as it was: it is dropped
\* when the gate changes.
GateObserve ==
    /\ nobs < MaxObs
    /\ \E pkt \in GatePackets :
          LET key == KeyOf(pkt) IN
          /\ by_src' = observe_packet(by_src, pkt, key)
          /\ observed' = observed \cup {<<key.src_ip, key.dst_ip>>}
    /\ nobs' = nobs + 1
    /\ split' = NoSplit
    /\ UNCHANGED <<sniffVars, callVars, threshold, shardVars, runVars>>

GateSplit ==
    /\ \E labels \in Labellings(Len(candidates(by_src, threshold))) :
          LET r == split_repetitive_vs_outliers(by_src, threshold, labels) IN
          split' = [summaries |-> r.summaries, source_ips |-> r.source_ips,
                    outliers |-> r.outliers, fitted |-> r.fitted, called |-> TRUE]
    /\ UNCHANGED <<sniffVars, callVars, threshold, by_src, observed, nobs, shardVars, runVars>>

GateNext == GateObserve \/ GateSplit

\* The shard is not used in SpecGate.
ShardIdle ==
    /\ idle = 1
    /\ open = <<>>
    /\ finalized = <<>>
    /\ returned = <<>>
    /\ routed = <<>>
    /\ closed = <<>>
    /\ npkts = 0


\* ------------------------------------------------ specification SpecShard
\* One AggregatorShard driven through its interface by an arbitrary caller.

ShardKeys ==
    { GroupKey("10.0.0.1", "10.0.0.2", 80, "tcp", "http"),
      GroupKey("10.0.0.1", "10.0.0.3", 53, "udp", "dns") }

\* Packets of the two keys' flows at every timestamp.
ShardPackets ==
    { PacketRecord(ts, k.src_ip, k.dst_ip, 40000, k.dst_port, k.transport,
                   <<>>, 1, "") : ts \in 0..MaxTs, k \in ShardKeys }

ShardInit ==
    /\ idle \in IdleChoices
    /\ open = <<>>
    /\ finalized = <<>>
    /\ returned = <<>>
    /\ routed = <<>>
    /\ closed = <<>>
    /\ npkts = 0

ShardRoute ==
    /\ npkts < MaxPkts
    /\ \E pkt \in ShardPackets, key \in ShardKeys :
          /\ pkt.src_ip = key.src_ip /\ pkt.dst_ip = key.dst_ip
          /\ LET r == RouteInto(open, finalized, idle, pkt, key) IN
             /\ open' = r.open
             /\ finalized' = r.finalized
          /\ routed' = Append(routed, <<key, pkt.ts>>)
    /\ npkts' = npkts + 1
    /\ UNCHANGED <<sniffVars, callVars, idle, returned, closed, gateVars, runVars>>

ShardFinalize ==
    /\ LET r == finalize_all(open, finalized) IN
       /\ open' = r.open
       /\ finalized' = r.finalized
       /\ returned' = r.out
    /\ routed' = <<>>
    /\ closed' = routed
    /\ UNCHANGED <<sniffVars, callVars, idle, npkts, gateVars, runVars>>

ShardNext == ShardRoute \/ ShardFinalize

\* The gate is not used in SpecShard.
GateIdle ==
    /\ threshold = 0
    /\ by_src = <<>>
    /\ split = NoSplit
    /\ observed = {}
    /\ nobs = 0


\* ----------------------------------------------------- specification Spec
\* One run_hour call: fetch the segments, validate each, read its packets,
\* feed the in-window ones to the scan gate and the shard, then finalize,
\* split, emit the records and the summaries, and emit the metrics.

\* run_hour's window [hour_start, hour_end).
RunWindow == <<0, MaxTs>>
HourStart == RunWindow[1]
HourEnd == RunWindow[2]

\* Timestamps of the packets of a run: the first and the last second of the
\* window, and hour_end itself.
RunTimestamps == {HourStart, HourEnd - 1, HourEnd}

\* A TCP SYN packet from every source to one target at hour_start, and from
\* one source at the two other timestamps.
RunPackets ==
    { PacketRecord(HourStart, s, "10.0.0.4", 40000, 80, "tcp", <<_TCP_SYN>>, 1, "")
        : s \in GateSources }
    \cup
    { PacketRecord(ts, "10.0.0.1", "10.0.0.4", 40000, 80, "tcp", <<_TCP_SYN>>, 1, "")
        : ts \in RunTimestamps }

\* The files a segment can refer to, with the compressor its handle declares.
SegmentFiles ==
    { <<File(FALSE, 0, <<>>), "none">>,
      <<File(TRUE, 0, <<>>), "none">>,
      <<File(TRUE, 10, MAGIC_PCAP_USEC_BE), "none">>,
      <<File(TRUE, 24, MAGIC_PCAP_USEC_BE), "none">>,
      <<File(TRUE, 100, MAGIC_PCAPNG), "none">>,
      <<File(TRUE, 100, MAGIC_GZIP \o <<8, 0>>), "gzip">>,
      <<File(TRUE, 100, MAGIC_PCAP_USEC_LE), "gzip">>,
      <<File(TRUE, 100, MAGIC_ZSTD), "zstd">> }

NoMetrics ==
    [segments_seen |-> 0, segments_valid |-> 0, packets_processed |-> 0,
     groups_emitted |-> 0, scan_candidates |-> 0, scans_collapsed |-> 0,
     scan_outliers_kept |-> 0]

NoRun == [valid |-> 0, failed |-> 0, after_failure |-> 0, aggregates |-> 0]

RunInit ==
    /\ idle = 1
    /\ open = <<>>
    /\ finalized = <<>>
    /\ returned = <<>>
    /\ routed = <<>>
    /\ closed = <<>>
    /\ npkts = 0
    /\ threshold \in ThresholdChoices
    /\ by_src = <<>>
    /\ split = NoSplit
    /\ observed = {}
    /\ nobs = 0
    /\ pc = "segments"
    /\ seg_i = 0
    /\ metrics = NoMetrics
    /\ sink = <<>>
    /\ run = NoRun
    /\ given = <<>>
    /\ got = <<>>
    /\ SnifferIdle

\* source.fetch yields one more segment, which is validated; an invalid one
\* is skipped.
RunSegment ==
    /\ pc = "segments"
    /\ seg_i < MaxSegs
    /\ seg_i' = seg_i + 1
    /\ \E seg \in SegmentFiles :
          /\ run' = [run EXCEPT !.valid =
                        IF validate_segment(seg[1], seg[2]) THEN @ + 1 ELSE @]
          /\ IF validate_segment(seg[1], seg[2])
             THEN /\ metrics' = [metrics EXCEPT !.segments_seen = @ + 1,
                                                !.segments_valid = @ + 1]
                  /\ pc' = "read"
             ELSE /\ metrics' = [metrics EXCEPT !.segments_seen = @ + 1]
                  /\ pc' = pc
    /\ UNCHANGED <<sniffVars, callVars, shardVars, gateVars, sink>>

\* The stream yields one more packet; if it is in the window it is observed
\* by the scan gate and routed into the shard under its key.
RunPacket ==
    /\ pc = "read"
    /\ npkts < MaxRunPkts
    /\ npkts' = npkts + 1
    /\ \E pkt \in RunPackets :
          IF in_window(pkt.ts, HourStart, HourEnd)
          THEN LET key == KeyOf(pkt)
                   r == RouteInto(open, finalized, idle, pkt, key)
               IN  /\ by_src' = observe_packet(by_src, pkt, key)
                   /\ open' = r.open
                   /\ finalized' = r.finalized
                   /\ metrics' = [metrics EXCEPT !.packets_processed = @ + 1]
                   /\ run' = [run EXCEPT !.after_failure =
                                 IF run.failed > 0 THEN @ + 1 ELSE @]
          ELSE UNCHANGED <<by_src, open, finalized, metrics, run>>
    /\ UNCHANGED <<sniffVars, callVars, idle, returned, routed, closed, threshold, split, observed,
                   nobs, pc, seg_i, sink>>

\* The stream of the segment is exhausted.
RunStreamEnd ==
    /\ pc = "read"
    /\ pc' = "segments"
    /\ UNCHANGED <<sniffVars, callVars, shardVars, gateVars, seg_i, metrics, sink, run>>

\* A buggy handler: the error of the stream ends the run.
RunStreamError_aborts ==
    /\ pc = "read"
    /\ pc' = "aborted"
    /\ run' = [run EXCEPT !.failed = @ + 1]
    /\ UNCHANGED <<sniffVars, callVars, shardVars, gateVars, seg_i, metrics, sink>>

\* Opening, decompressing or reading the stream raises: the error is caught,
\* the rest of the segment is skipped, the packets already routed stay.
RunStreamError ==
    /\ pc = "read"
    /\ pc' = "segments"
    /\ run' = [run EXCEPT !.failed = @ + 1]
    /\ UNCHANGED <<sniffVars, callVars, shardVars, gateVars, seg_i, metrics, sink>>

\* source.fetch yields no more segment: finalize_all, then the scan split.
RunFinalize ==
    /\ pc = "segments"
    /\ LET r == finalize_all(open, finalized) IN
       /\ open' = r.open
       /\ finalized' = r.finalized
       /\ returned' = r.out
    /\ run' = [run EXCEPT !.aggregates = Len(open) + Len(finalized)]
    /\ \E labels \in Labellings(Len(candidates(by_src, threshold))) :
          LET r == split_repetitive_vs_outliers(by_src, threshold, labels) IN
          /\ split' = [summaries |-> r.summaries, source_ips |-> r.source_ips,
                       outliers |-> r.outliers, fitted |-> r.fitted,
                       called |-> TRUE]
          /\ metrics' = [metrics EXCEPT
                            !.scan_candidates = Len(candidates(by_src, threshold)),
                            !.scan_outliers_kept = Cardinality(r.outliers)]
    /\ pc' = "emit_groups"
    /\ UNCHANGED <<sniffVars, callVars, idle, routed, closed, npkts, threshold, by_src, observed, nobs,
                   seg_i, sink>>

\* The record run_hour assembles from a finalized aggregate.
GroupRecord(agg) ==
    LET f == finalize_aggregate(agg) IN
    [key |-> agg.key, first_ts |-> agg.first_ts, last_ts |-> agg.last_ts,
     duration_s |-> f.duration_s, counts |-> f.counts, tcp_flags |-> f.flags,
     lineage_hour |-> <<HourStart, HourEnd>>]

\* for agg in finalized: ... emitter.emit_group(record)
RECURSIVE EmitGroups(_, _)
EmitGroups(snk, aggs) ==
    IF aggs = <<>> THEN snk
    ELSE EmitGroups(emit_group(snk, GroupRecord(Head(aggs))), Tail(aggs))

\* for summary in repetitive: emitter.emit_scan(summary)
RECURSIVE EmitScans(_, _)
EmitScans(snk, summaries) ==
    IF summaries = <<>> THEN snk
    ELSE EmitScans(emit_scan(snk, Head(summaries)), Tail(summaries))

\* Every finalized aggregate is turned into a record and emitted.
RunEmitGroups ==
    /\ pc = "emit_groups"
    /\ sink' = EmitGroups(sink, returned)
    /\ metrics' = [metrics EXCEPT !.groups_emitted = @ + Len(returned)]
    /\ pc' = "emit_scans"
    /\ UNCHANGED <<sniffVars, callVars, shardVars, gateVars, seg_i, run>>

\* Every summary of the repetitive set is emitted.
RunEmitScans ==
    /\ pc = "emit_scans"
    /\ sink' = EmitScans(sink, split.summaries)
    /\ metrics' = [metrics EXCEPT !.scans_collapsed = @ + Len(split.summaries)]
    /\ pc' = "metrics"
    /\ UNCHANGED <<sniffVars, callVars, shardVars, gateVars, seg_i, run>>

\* A buggy end of run: the snapshot is sent only if something was emitted.
RunMetrics_skips_empty ==
    /\ pc = "metrics"
    /\ sink' = IF sink = <<>> THEN sink
               ELSE Append(sink, [call |-> "on_metrics", arg |-> metrics])
    /\ pc' = "done"
    /\ UNCHANGED <<sniffVars, callVars, shardVars, gateVars, seg_i, metrics, run>>

\* The metrics snapshot is sent to the sink and the run ends.
RunMetrics ==
    /\ pc = "metrics"
    /\ sink' = Append(sink, [call |-> "on_metrics", arg |-> metrics])
    /\ pc' = "done"
    /\ UNCHANGED <<sniffVars, callVars, shardVars, gateVars, seg_i, metrics, run>>

Next ==
    \/ RunSegment
    \/ RunPacket
    \/ RunStreamEnd
    \/ RunStreamError
    \/ RunFinalize
    \/ RunEmitGroups
    \/ RunEmitScans
    \/ RunMetrics

Spec == RunInit /\ [][Next]_vars

\* run_hour is not running in SpecShard and SpecGate.
RunIdle ==
    /\ pc = "idle"
    /\ seg_i = 0
    /\ metrics = NoMetrics
    /\ sink = <<>>
    /\ run = NoRun

\* No function is studied on its own in SpecShard, SpecGate and Spec.
CallIdle ==
    /\ given = <<>>
    /\ got = <<>>

\* Only the shard runs.
ShardOnlyInit == ShardInit /\ GateIdle /\ RunIdle /\ CallIdle /\ SnifferIdle

SpecShard == ShardOnlyInit /\ [][ShardNext]_vars

\* Only the gate runs.
GateOnlyInit == GateInit /\ ShardIdle /\ RunIdle /\ CallIdle /\ SnifferIdle

SpecGate == GateOnlyInit /\ [][GateNext]_vars

\* ------------------------------------------------- specification SpecPair
\* Two packets of one source fed to a fresh shard the way run_hour feeds
\* them: each in-window packet is routed under the key derived from it.

PairPackets ==
    { PacketRecord(ts, "10.0.0.1", d, sp, dp, tr, <<>>, 1, "") :
        ts \in 0..MaxTs, d \in {"10.0.0.2", "10.0.0.3"},
        sp \in {40000, 40001}, dp \in {80, 8080}, tr \in {"tcp", "udp"} }

PairInit ==
    /\ ShardInit
    /\ GateIdle
    /\ RunIdle
    /\ SnifferIdle
    /\ given \in PairPackets \X PairPackets
    /\ got = <<>>

\* The next packet of the pair; got collects the keys the packets were
\* routed under.
PairPacket ==
    /\ npkts < Len(given)
    /\ npkts' = npkts + 1
    /\ LET pkt == given[npkts + 1] IN
       IF in_window(pkt.ts, HourStart, HourEnd)
       THEN LET key == KeyOf(pkt)
                r == RouteInto(open, finalized, idle, pkt, key)
            IN  /\ open' = r.open
                /\ finalized' = r.finalized
                /\ got' = Append(got, key)
       ELSE UNCHANGED <<open, finalized, got, sniffVars>>
    /\ UNCHANGED <<idle, returned, routed, closed, gateVars, runVars, given, sniffVars>>

SpecPair == PairInit /\ [][PairPacket]_vars

\* ---------------------------------------------- specification SpecPreview
\* update_aggregate applied again and again to one aggregate, with packets
\* of both directions of its key.  The preview of a packet is the number it
\* has among the packets of its direction, so that every preview of a
\* direction is different from the others; one packet of direction up may
\* carry none.

PreviewKey == GroupKey("10.0.0.1", "10.0.0.2", 80, "tcp", "http")

\* The packet of direction dir that follows n packets of that direction.
PreviewPacket(dir, n, empty) ==
    LET preview == IF empty THEN "" ELSE ToString(n + 1) IN
    IF dir = "up"
    THEN PacketRecord(0, PreviewKey.src_ip, PreviewKey.dst_ip, 40000,
                      PreviewKey.dst_port, "tcp", <<>>, 1, preview)
    ELSE PacketRecord(0, PreviewKey.dst_ip, PreviewKey.src_ip,
                      PreviewKey.dst_port, 40000, "tcp", <<>>, 1, preview)

NonEmpty(previews) == SelectSeq(previews, LAMBDA x : x # "")

PreviewInit ==
    /\ ShardIdle
    /\ GateIdle
    /\ RunIdle
    /\ SnifferIdle
    /\ given = [up |-> <<>>, dn |-> <<>>]
    /\ got = _new_aggregate(PreviewKey, 0)

\* One more packet; given keeps the previews of the packets of each
\* direction in arrival order, got is the aggregate.
PreviewUpdate ==
    /\ \E dir \in {"up", "dn"}, empty \in BOOLEAN :
          LET pkt == PreviewPacket(dir, Len(given[dir]), empty) IN
          /\ empty => (dir = "up" /\ NonEmpty(given.up) = given.up)
          /\ ~empty => Len(NonEmpty(given[dir])) < _MAX_PREVIEWS_PER_DIR + MaxOver
          /\ got' = update_aggregate(got, pkt, group_direction(pkt, PreviewKey))
          /\ given' = [given EXCEPT ![dir] = Append(@, pkt.payload_preview)]
    /\ UNCHANGED <<shardVars, gateVars, runVars, sniffVars>>

SpecPreview == PreviewInit /\ [][PreviewUpdate]_vars

\* ----------------------------------------------- config.py, quantize.py

\* config.py PipelineConfig: the constraints of the fields.  Fractions are
\* kept in hundredths (iforest_contamination 14 is 0.14), the log bases are
\* whole numbers.
KnobsInRange(k) ==
    /\ k.iforest_contamination >= 0
    /\ k.iforest_contamination <= 50
    /\ k.iforest_estimators >= 32
    /\ k.count_log_base > 1
    /\ k.duration_log_base > 1
    /\ k.http_uri_token_budget >= 1
    /\ k.emitter_queue_capacity >= 1024
    /\ k.emitter_backpressure_policy \in {"block", "drop_oldest"}

\* config.py PipelineConfig(**knobs): the frozen configuration holding the
\* values as given, or the ValidationError pydantic raises.
PipelineConfig(k) ==
    IF KnobsInRange(k) THEN [error |-> FALSE, cfg |-> k]
    ELSE [error |-> TRUE, cfg |-> <<>>]

\* floor(log_base(x)) for whole x >= 1 and base >= 2.
RECURSIVE FloorLog(_, _)
FloorLog(x, base) == IF x < base THEN 0 ELSE 1 + FloorLog(x \div base, base)

\* The pairs <<x, base>>, x up to 2000 and base a whole number from 2 to 10,
\* for which math.log(x, base), the quotient of two doubles, comes out just
\* below the whole number log_base(x): 4.999999999999999 for 243 and 3,
\* 2.9999999999999996 for 1000 and 10.
QuotientFallsShort == {<<243, 3>>, <<1000, 10>>}

\* int(math.floor(math.log(x, base))) for whole x >= 1 and base >= 2.
math_log_floor(x, base) ==
    IF <<x, base>> \in QuotientFallsShort
    THEN FloorLog(x, base) - 1
    ELSE FloorLog(x, base)

\* quantize.py _log_bin: the bin, and with it the value the local variable
\* base has when the function returns.
_log_bin(x, base) ==
    IF x <= 0 THEN [bin |-> 0, base |-> base]
    ELSE IF base <= 1 THEN [bin |-> math_log_floor(x, 2), base |-> 2]
    ELSE [bin |-> math_log_floor(x, base), base |-> base]

\* The number of times n must be multiplied by base to reach d, for
\* 0 < n < d: -floor(log_base(n / d)).
RECURSIVE StepsUpTo(_, _, _)
StepsUpTo(n, d, base) == IF n >= d THEN 0 ELSE 1 + StepsUpTo(n * base, d, base)

\* quantize.py _log_bin_float for x = n / d seconds, n >= 0 and d > 0, and
\* a whole base: int(math.floor(math.log(x, base))), which is below zero
\* for x under one second.  On the durations of the model, none above four
\* seconds, math.log yields the floor exactly.
_log_bin_float(n, d, base) ==
    IF n <= 0 THEN 0
    ELSE LET b == IF base <= 1 THEN 2 ELSE base IN
         IF n >= d THEN FloorLog(n \div d, b) ELSE 0 - StepsUpTo(n, d, b)

\* quantize.py _linear_bin: max(0, int(x)).
_linear_bin(x) == IF x > 0 THEN x ELSE 0

\* quantize.py quantize_tokens; the duration is duration_halves / 2 seconds.
quantize_tokens(counts, duration_halves, flags, count_log_base, duration_log_base) ==
    [pkts_up_bin |-> _log_bin(counts.pkts_up, count_log_base).bin,
     pkts_dn_bin |-> _log_bin(counts.pkts_dn, count_log_base).bin,
     bytes_up_bin |-> _log_bin(counts.bytes_up, count_log_base).bin,
     bytes_dn_bin |-> _log_bin(counts.bytes_dn, count_log_base).bin,
     dur_bin |-> _log_bin_float(duration_halves, 2, duration_log_base),
     syn_bin |-> _linear_bin(flags.syn),
     ack_bin |-> _linear_bin(flags.ack),
     rst_bin |-> _linear_bin(flags.rst),
     fin_bin |-> _linear_bin(flags.fin)]

\* ----------------------------------------------- pipeline/enrichers.py

\* The payload previews of the model, as the parsers of enrichers.py see
\* them: an HTTP request line, an FTP login, an SMB2 and an SMB1 header, a
\* preview that is both an HTTP request line and an FTP command, an HTTP
\* request for "/" (no token), and bytes of no protocol.
PreviewHttp == "GET /a?b=1 HTTP/1.1<CRLF>Host: x<CRLF>"
PreviewFtp == "USER bob<CRLF>PASS x<CRLF>"
PreviewSmb2 == "<FE>SMB<00 x 8><05><00 x 3>"
PreviewSmb1 == "<FF>SMB<72><00 x 3>"
PreviewHttpFtp == "GET /a HTTP/1.1<CRLF>USER bob<CRLF>"
PreviewHttpRoot == "GET / HTTP/1.1<CRLF>"
PreviewOther == "hello"

\* enrichers.py _http_extract_uri_tokens, max_tokens.
HTTP_MAX_TOKENS == 256

\* enrichers.py _http_extract_uri_tokens, the body of the loop for one blob:
\* the tokens of the request target of its first line.
HttpTargetTokens(blob) ==
    CASE blob = PreviewHttp -> <<"a", "b", "1">>
      [] blob = PreviewHttpFtp -> <<"a">>
      [] OTHER -> <<>>

\* enrichers.py _ftp_command_counts, the body of the loop for one blob: the
\* verbs its lines start with, in order.
FtpVerbs(blob) ==
    CASE blob = PreviewFtp -> <<"USER", "PASS">>
      [] blob = PreviewHttpFtp -> <<"USER">>
      [] OTHER -> <<>>

\* enrichers.py _smb_command_counts, the body of the loop for one blob: the
\* key of its command byte.
SmbCommands(blob) ==
    CASE blob = PreviewSmb2 -> <<"SMB2_5">>
      [] blob = PreviewSmb1 -> <<"SMB1_114">>
      [] OTHER -> <<>>

\* The lists a loop over the previews collects, one after the other.
RECURSIVE Flatten(_)
Flatten(lists) == IF lists = <<>> THEN <<>> ELSE Head(lists) \o Flatten(Tail(lists))

\* counts[key] = counts.get(key, 0) + 1 for every key of a list: a dict
\* as the function from its keys to their counts; the empty dict is <<>>.
Tally(keys) ==
    [k \in Range(keys) |-> Cardinality({ i \in 1..Len(keys) : keys[i] = k })]

\* enrichers.py _http_extract_uri_tokens.
_http_extract_uri_tokens(previews) ==
    Prefix(Flatten([i \in 1..Len(previews) |-> HttpTargetTokens(previews[i])]),
           HTTP_MAX_TOKENS)

\* enrichers.py _ftp_command_counts.
_ftp_command_counts(previews) ==
    Tally(Flatten([i \in 1..Len(previews) |-> FtpVerbs(previews[i])]))

\* enrichers.py _smb_command_counts.
_smb_command_counts(previews) ==
    Tally(Flatten([i \in 1..Len(previews) |-> SmbCommands(previews[i])]))

NoneUpdated == [http |-> FALSE, ftp |-> FALSE, smb |-> FALSE]

\* A buggy enrich_group: every strategy is tried, whatever the service.
enrich_group_every_strategy(agg) ==
    LET previews == agg.payload_up \o agg.payload_dn
        toks == _http_extract_uri_tokens(previews)
        ftp == _ftp_command_counts(previews)
        smb == _smb_command_counts(previews)
    IN  [agg |-> [agg EXCEPT
                    !.http_uri_tokens = IF toks # <<>> THEN <<toks>> ELSE @,
                    !.ftp_cmd_counts = IF ftp # <<>> THEN <<ftp>> ELSE @,
                    !.smb_cmd_counts = IF smb # <<>> THEN <<smb>> ELSE @],
         updated |-> [http |-> toks # <<>>, ftp |-> ftp # <<>>,
                      smb |-> smb # <<>>]]

\* enrichers.py enrich_group: the aggregate after the call and the flags
\* returned.
enrich_group(agg) ==
    LET previews == agg.payload_up \o agg.payload_dn
        svc == agg.key.service
    IN  IF previews = <<>> THEN [agg |-> agg, updated |-> NoneUpdated]
        ELSE IF svc = "http"
        THEN LET toks == _http_extract_uri_tokens(previews) IN
             IF toks # <<>>
             THEN [agg |-> [agg EXCEPT !.http_uri_tokens = <<toks>>],
                   updated |-> [NoneUpdated EXCEPT !.http = TRUE]]
             ELSE [agg |-> agg, updated |-> NoneUpdated]
        ELSE IF svc = "ftp"
        THEN LET counts == _ftp_command_counts(previews) IN
             IF counts # <<>>
             THEN [agg |-> [agg EXCEPT !.ftp_cmd_counts = <<counts>>],
                   updated |-> [NoneUpdated EXCEPT !.ftp = TRUE]]
             ELSE [agg |-> agg, updated |-> NoneUpdated]
        ELSE IF svc = "smb"
        THEN LET counts == _smb_command_counts(previews) IN
             IF counts # <<>>
             THEN [agg |-> [agg EXCEPT !.smb_cmd_counts = <<counts>>],
                   updated |-> [NoneUpdated EXCEPT !.smb = TRUE]]
             ELSE [agg |-> agg, updated |-> NoneUpdated]
        ELSE [agg |-> agg, updated |-> NoneUpdated]

\* ------------------------------------------------------------ sampling.py

\* The tokens of a list that are (keep = TRUE) or are not in the lexicon, in
\* their order: ak_tokens and other_tokens.
PartitionTokens(tokens, ak_set, keep) ==
    SelectSeq(tokens, LAMBDA t : (t \in ak_set) = keep)

\* The tokens for which random.random() < p came out true, in their order;
\* draws[i] is the outcome for the i-th token.
RECURSIVE Sampled(_, _)
Sampled(other_tokens, draws) ==
    IF other_tokens = <<>> THEN <<>>
    ELSE (IF Head(draws) THEN <<Head(other_tokens)>> ELSE <<>>)
         \o Sampled(Tail(other_tokens), Tail(draws))

\* A buggy cap: the merged list is kept whole.
HardCap_none(combined, budget) == combined

\* sampling.py: if len(combined) > budget: combined = combined[:budget].
HardCap(combined, budget) ==
    IF Len(combined) > budget THEN SubSeq(combined, 1, budget) ELSE combined

\* sampling.py apply_http_binomial_sampling: agg.http_uri_tokens after the
\* call and the value returned.  p is remaining_budget / len(other_tokens),
\* kept as the pair of the two; with 0 < p < 1 every outcome of the draws
\* is possible.
apply_http_binomial_sampling(tokens, budget, always_keep, draws) ==
    LET ak_tokens == PartitionTokens(tokens, always_keep, TRUE)
        other_tokens == PartitionTokens(tokens, always_keep, FALSE)
        remaining_budget == IF budget - Len(ak_tokens) > 0
                            THEN budget - Len(ak_tokens) ELSE 0
        sampled == IF remaining_budget >= Len(other_tokens) THEN other_tokens
                   ELSE IF remaining_budget = 0 THEN <<>>
                   ELSE Sampled(other_tokens, draws)
    IN  IF tokens = <<>> \/ budget <= 0
        THEN [tokens |-> tokens, applied |-> FALSE]
        ELSE IF Len(tokens) <= budget
        THEN [tokens |-> tokens, applied |-> FALSE]
        ELSE IF Len(other_tokens) = 0
        THEN [tokens |-> SubSeq(ak_tokens, 1, budget), applied |-> TRUE]
        ELSE [tokens |-> HardCap(ak_tokens \o sampled, budget), applied |-> TRUE]

\* -------------------------------------------------- specification SpecFan
\* The scan gate and the shard fed side by side, the way run_hour feeds
\* them: every packet is observed by the gate and routed into the shard
\* under its key.  One source sends to two destinations.

FanPackets ==
    { PacketRecord(ts, "10.0.0.1", d, 40000, 80, "tcp", <<_TCP_SYN>>, 1, "")
        : ts \in 0..MaxTs, d \in GateTargets }

\* A buggy feeding: the fan-out of a source starts afresh whenever one of
\* its aggregates is rolled.
ObserveAndRoute_per_slice(by, op, fin, idl, pkt) ==
    LET key == KeyOf(pkt)
        r == RouteInto(op, fin, idl, pkt, key)
    IN  [by_src |-> IF Len(r.finalized) > Len(fin)
                    THEN observe_packet(<<>>, pkt, key)
                    ELSE observe_packet(by, pkt, key),
         open |-> r.open, finalized |-> r.finalized]

\* The gate's table and the shard's containers after one packet was fed.
ObserveAndRoute(by, op, fin, idl, pkt) ==
    LET key == KeyOf(pkt)
        r == RouteInto(op, fin, idl, pkt, key)
    IN  [by_src |-> observe_packet(by, pkt, key),
         open |-> r.open, finalized |-> r.finalized]

FanInit ==
    /\ ShardInit
    /\ GateInit
    /\ RunIdle
    /\ SnifferIdle
    /\ CallIdle

FanPacket ==
    /\ npkts < MaxPkts
    /\ npkts' = npkts + 1
    /\ \E pkt \in FanPackets :
          LET r == ObserveAndRoute(by_src, open, finalized, idle, pkt) IN
          /\ by_src' = r.by_src
          /\ open' = r.open
          /\ finalized' = r.finalized
          /\ observed' = observed \cup {<<KeyOf(pkt).src_ip, KeyOf(pkt).dst_ip>>}
    /\ UNCHANGED <<idle, returned, routed, closed, threshold, split, nobs,
                   runVars, callVars, sniffVars>>

SpecFan == FanInit /\ [][FanPacket]_vars

\* ----------------------------------------------- specification SpecConfig
\* The knobs of a configuration, in and out of range: the configuration is
\* built from them, a run is started with it if there is one, and _log_bin
\* is called with the count base as a component of the pipeline receives it.

KnobChoices ==
    [ iforest_contamination : {0 - 1, 0, 50, 51},
      iforest_estimators : {31, 32},
      count_log_base : {0, 1, 2, 3},
      duration_log_base : {1, 2},
      http_uri_token_budget : {0, 1},
      emitter_queue_capacity : {1023, 1024},
      emitter_backpressure_policy : {"block", "drop_oldest", "drop_newest"} ]

CountChoices == {0, 1, 2, 8, 9}

ConfigInit ==
    /\ ShardIdle
    /\ GateIdle
    /\ RunIdle
    /\ SnifferIdle
    /\ given \in [knobs : KnobChoices, count : CountChoices]
    /\ got = [config |-> <<>>, bin |-> <<>>]

\* PipelineConfig(**knobs).
ConfigBuild ==
    /\ got.config = <<>>
    /\ got' = [got EXCEPT !.config = <<PipelineConfig(given.knobs)>>]
    /\ UNCHANGED <<shardVars, gateVars, runVars, given, sniffVars>>

\* run_hour(cfg, ...) is called with the configuration that was built; there
\* is none to call it with when the construction raised.
ConfigRun ==
    /\ got.config # <<>>
    /\ ~got.config[1].error
    /\ pc = "idle"
    /\ pc' = "segments"
    /\ UNCHANGED <<shardVars, gateVars, seg_i, metrics, sink, run, callVars, sniffVars>>

\* _log_bin(count, base) with the count base of the knobs.
ConfigLogBin ==
    /\ got.bin = <<>>
    /\ got' = [got EXCEPT !.bin = <<_log_bin(given.count,
                                               given.knobs.count_log_base)>>]
    /\ UNCHANGED <<shardVars, gateVars, runVars, given, sniffVars>>

ConfigNext == ConfigBuild \/ ConfigRun \/ ConfigLogBin

SpecConfig == ConfigInit /\ [][ConfigNext]_vars

\* ----------------------------------------------- specification SpecWindow
\* in_window asked about one timestamp for two adjacent windows [a, b) and
\* [b, c), and the packet with that timestamp fed to a shard for the first
\* window the way run_hour feeds it.  Time is counted in half seconds, so
\* that the whole seconds a, b, c are 2a, 2b, 2c and a timestamp can fall
\* between two of them.

WindowBounds == 0..(MaxTs + 1)

WindowInit ==
    /\ ShardIdle
    /\ GateIdle
    /\ RunIdle
    /\ SnifferIdle
    /\ given \in { g \in [ts : 0..(2 * MaxTs + 2), a : WindowBounds,
                          b : WindowBounds, c : WindowBounds] :
                       g.a <= g.b /\ g.b <= g.c }
    /\ got = <<>>

\* The two questions, and the packet routed if it is in the first window.
WindowCall ==
    /\ got = <<>>
    /\ got' = <<[first |-> in_window(given.ts, 2 * given.a, 2 * given.b),
                 second |-> in_window(given.ts, 2 * given.b, 2 * given.c)]>>
    /\ LET pkt == PacketRecord(given.ts, "10.0.0.1", "10.0.0.2", 40000, 80,
                               "tcp", <<>>, 1, "")
       IN  IF in_window(pkt.ts, 2 * given.a, 2 * given.b)
           THEN LET r == RouteInto(open, finalized, idle, pkt, KeyOf(pkt)) IN
                /\ open' = r.open
                /\ finalized' = r.finalized
                /\ npkts' = npkts + 1
           ELSE UNCHANGED <<open, finalized, npkts>>
    /\ UNCHANGED <<idle, returned, routed, closed, gateVars, runVars, given, sniffVars>>

SpecWindow == WindowInit /\ [][WindowCall]_vars

\* ----------------------------------------------- specification SpecLogBin
\* _log_bin called on two counts x1 < x2 with one log base above 1.

LogCounts ==
    {0, 1, 2, 3, 4, 7, 8, 9, 10, 26, 27, 99, 100, 242, 243, 244, 999, 1000}

LogBases == {2, 3, 10}

LogBinInit ==
    /\ ShardIdle
    /\ GateIdle
    /\ RunIdle
    /\ SnifferIdle
    /\ given \in { g \in [x1 : LogCounts, x2 : LogCounts, base : LogBases] :
                       g.x1 < g.x2 }
    /\ got = <<>>

\* The two calls; got holds the two bins.
LogBinCall ==
    /\ got = <<>>
    /\ got' = <<_log_bin(given.x1, given.base).bin,
                _log_bin(given.x2, given.base).bin>>
    /\ UNCHANGED <<shardVars, gateVars, runVars, given, sniffVars>>

SpecLogBin == LogBinInit /\ [][LogBinCall]_vars

\* ----------------------------------------------- specification SpecEnrich
\* enrich_group called once on an aggregate as the shard builds it: no
\* enrichment field set, previews of either direction retained or not.

EnrichPorts == {80, 21, 445, 53, 9999}

EnrichPreviews ==
    { PreviewHttp, PreviewFtp, PreviewSmb2, PreviewSmb1, PreviewHttpFtp,
      PreviewHttpRoot, PreviewOther }

\* The up buffer holds no, one or two previews, the dn buffer none or one.
EnrichUp ==
    {<<>>} \cup { <<p>> : p \in EnrichPreviews }
           \cup { <<p, q>> : p \in EnrichPreviews, q \in EnrichPreviews }

EnrichDn == {<<>>} \cup { <<p>> : p \in EnrichPreviews }

EnrichAggregates ==
    { [_new_aggregate(GroupKey("10.0.0.1", "10.0.0.2", port, "tcp",
                               infer_service(port)), 0)
         EXCEPT !.payload_up = up, !.payload_dn = dn] :
        port \in EnrichPorts, up \in EnrichUp, dn \in EnrichDn }

EnrichInit ==
    /\ ShardIdle
    /\ GateIdle
    /\ RunIdle
    /\ SnifferIdle
    /\ given \in EnrichAggregates
    /\ got = <<>>

EnrichCall ==
    /\ got = <<>>
    /\ got' = <<enrich_group(given)>>
    /\ UNCHANGED <<shardVars, gateVars, runVars, given, sniffVars>>

SpecEnrich == EnrichInit /\ [][EnrichCall]_vars

\* ------------------------------------------------- specification SpecRoll
\* get_or_create called for a key whose aggregate is open, at every distance
\* of ts from the aggregate's last_ts, with a second key open beside it.

RollKey == GroupKey("10.0.0.1", "10.0.0.2", 80, "tcp", "http")

OtherKey == GroupKey("10.0.0.1", "10.0.0.3", 53, "udp", "dns")

\* The values idle_split_seconds is drawn from here, 0 included.
RollIdleChoices == {0, 1, 2}

\* The shard before the call: two packets of RollKey at g.a and g.b, the
\* second with SYN and ACK set, and one packet of OtherKey.
RollBefore(g) ==
    LET p1 == PacketRecord(g.a, "10.0.0.1", "10.0.0.2", 40000, 80, "tcp",
                           <<_TCP_SYN>>, 3, "")
        p2 == PacketRecord(g.b, "10.0.0.2", "10.0.0.1", 80, 40000, "tcp",
                           <<_TCP_SYN + _TCP_ACK>>, 5, "")
        p3 == PacketRecord(0, "10.0.0.1", "10.0.0.3", 40000, 53, "udp",
                           <<>>, 1, "")
        r1 == RouteInto(<<>>, <<>>, g.idle, p3, OtherKey)
        r2 == RouteInto(r1.open, r1.finalized, g.idle, p1, RollKey)
    IN  RouteInto(r2.open, r2.finalized, g.idle, p2, RollKey)

RollInit ==
    /\ ShardIdle
    /\ GateIdle
    /\ RunIdle
    /\ SnifferIdle
    /\ given \in [a : 0..MaxTs, b : 0..MaxTs, ts : 0..MaxTs,
                  idle : RollIdleChoices]
    /\ got = <<>>

\* get_or_create(RollKey, ts) on the shard built from given.
RollCall ==
    /\ got = <<>>
    /\ LET before == RollBefore(given) IN
       got' = <<get_or_create(before.open, before.finalized, given.idle,
                              RollKey, given.ts)>>
    /\ UNCHANGED <<shardVars, gateVars, runVars, given, sniffVars>>

SpecRoll == RollInit /\ [][RollCall]_vars

\* ---------------------------------------------- specification SpecObserve
\* observe_packet called once on a fresh gate, with a packet and a key the
\* packet may be routed under: the key of its own five-tuple, or the key of
\* the flow it answers (the one group_direction calls "dn").

ObserveHosts == {"10.0.0.1", "10.0.0.2", "10.0.0.3"}

\* Sender and receiver of a packet: two hosts.
ObservePairs == { p \in ObserveHosts \X ObserveHosts : p[1] # p[2] }

ObservePackets ==
    { PacketRecord(0, p[1], p[2], sp, dp, "tcp", fl, 1, "") :
        p \in ObservePairs, sp \in {40000, 40001}, dp \in {80, 445},
        fl \in {<<_TCP_SYN>>, <<_TCP_SYN + _TCP_ACK>>} }
    \cup
    { PacketRecord(0, p[1], p[2], 40000, 53, "udp", <<>>, 1, "") :
        p \in ObservePairs }

\* The two keys a packet belongs to by grouping.py group_direction: the one
\* it is "up" for, (key.src_ip, key.dst_ip) being its (src_ip, dst_ip), and
\* the one it is "dn" for, the key of the flow it answers, whose destination
\* port is the port of the packet's sender.
ObserveKeys(pkt) ==
    [own |-> GroupKey(pkt.src_ip, pkt.dst_ip, pkt.dst_port, pkt.transport,
                      infer_service(pkt.dst_port)),
     reverse |-> GroupKey(pkt.dst_ip, pkt.src_ip, pkt.src_port, pkt.transport,
                          infer_service(pkt.src_port))]

ObserveInit ==
    /\ ShardIdle
    /\ GateIdle
    /\ RunIdle
    /\ SnifferIdle
    /\ given \in [pkt : ObservePackets, key : {"own", "reverse"}]
    /\ got = <<>>

\* observe_packet(pkt, key); got holds _by_src after the call.
ObserveCall ==
    /\ got = <<>>
    /\ got' = <<observe_packet(<<>>, given.pkt,
                                ObserveKeys(given.pkt)[given.key])>>
    /\ UNCHANGED <<shardVars, gateVars, runVars, given, sniffVars>>

SpecObserve == ObserveInit /\ [][ObserveCall]_vars

\* -------------------------------------------------- specification SpecSyn
\* One ScanGate observing packets of every flag combination that matters to
\* the SYN-only count, each under the key of its own five-tuple; given is
\* the list of the packets observed so far.

SynSources == {"10.0.0.1", "10.0.0.2"}

SynFlags ==
    { <<>>, <<_TCP_SYN>>, <<_TCP_SYN + _TCP_ACK>>, <<_TCP_ACK>>, <<_TCP_RST>>,
      <<_TCP_SYN + _TCP_FIN>> }

SynPackets ==
    { PacketRecord(0, s, "10.0.0.4", 40000, 80,
                   IF fl = <<>> THEN "udp" ELSE "tcp", fl, 1, "") :
        s \in SynSources, fl \in SynFlags }

SynInit ==
    /\ ShardIdle
    /\ GateIdle
    /\ RunIdle
    /\ SnifferIdle
    /\ given = <<>>
    /\ got = <<>>

SynObserve ==
    /\ nobs < MaxObs
    /\ \E pkt \in SynPackets :
          /\ by_src' = observe_packet(by_src, pkt, ObserveKeys(pkt).own)
          /\ given' = Append(given, pkt)
    /\ nobs' = nobs + 1
    /\ UNCHANGED <<shardVars, threshold, split, observed, runVars, got, sniffVars>>

SpecSyn == SynInit /\ [][SynObserve]_vars

\* ----------------------------------------------- specification SpecUpdate
\* update_aggregate called once on an aggregate of UpdateKey, fresh or with
\* counters that are not zero, with a packet of every pair of endpoints and
\* every combination of the flag bits.

UpdateKey == GroupKey("10.0.0.1", "10.0.0.2", 80, "tcp", "http")

UpdateHosts == {"10.0.0.1", "10.0.0.2", "10.0.0.3"}

\* No flags (not TCP), no bit, each counted bit, an uncounted bit (PSH),
\* and bits together.
UpdateFlags ==
    { <<>>, <<0>>, <<_TCP_FIN>>, <<_TCP_SYN>>, <<_TCP_RST>>, <<_TCP_ACK>>,
      <<8>>, <<_TCP_SYN + _TCP_ACK>>, <<_TCP_FIN + _TCP_ACK + 8>>,
      <<_TCP_FIN + _TCP_SYN + _TCP_RST + _TCP_ACK>> }

UpdatePackets ==
    { PacketRecord(1, s, d, 40000, 80, IF fl = <<>> THEN "udp" ELSE "tcp",
                   fl, len, "") :
        s \in UpdateHosts, d \in UpdateHosts, fl \in UpdateFlags,
        len \in {1, 60} }

\* A fresh aggregate, and one that has counted in both directions.
UpdateAggregates ==
    { _new_aggregate(UpdateKey, 0),
      [_new_aggregate(UpdateKey, 0) EXCEPT
         !.pkts_up = 2, !.bytes_up = 120, !.pkts_dn = 1, !.bytes_dn = 40,
         !.tcp_flags = [syn |-> 1, ack |-> 2, rst |-> 0, fin |-> 1]] }

UpdateInit ==
    /\ ShardIdle
    /\ GateIdle
    /\ RunIdle
    /\ SnifferIdle
    /\ given \in [agg : UpdateAggregates, pkt : UpdatePackets]
    /\ got = <<>>

\* update_aggregate(agg, pkt, group_direction(pkt, agg.key)).
UpdateCall ==
    /\ got = <<>>
    /\ got' = <<update_aggregate(given.agg, given.pkt,
                                 group_direction(given.pkt, given.agg.key))>>
    /\ UNCHANGED <<shardVars, gateVars, runVars, given, sniffVars>>

SpecUpdate == UpdateInit /\ [][UpdateCall]_vars

\* --------------------------------------------- specification SpecConserve
\* One AggregatorShard fed packets of two keys, of either direction and of
\* two lengths, in any order of their timestamps, and finalized after any
\* number of them.  given counts the packets routed and adds up their
\* lengths; got holds what given was when finalize_all ran.

\* Packets routed in one behaviour of SpecConserve.
MaxConservePkts == 3

\* Gaps of 1 (within idle_split_seconds = 1) and of 2 and 3 (beyond it).
ConserveTimestamps == {0, 1, 3}

ConservePackets ==
    { PacketRecord(ts, "10.0.0.1", k.dst_ip, 40000, k.dst_port, k.transport,
                   <<>>, len, "") :
        ts \in ConserveTimestamps, k \in {RollKey, OtherKey}, len \in {1, 60} }
    \cup
    { PacketRecord(ts, k.dst_ip, "10.0.0.1", k.dst_port, 40000, k.transport,
                   <<>>, len, "") :
        ts \in ConserveTimestamps, k \in {RollKey, OtherKey}, len \in {1, 60} }

\* The key of the flow a packet belongs to, whichever its direction.
ConserveKeyOf(pkt) == IF "10.0.0.2" \in {pkt.src_ip, pkt.dst_ip} THEN RollKey ELSE OtherKey

ConserveInit ==
    /\ ShardIdle
    /\ GateIdle
    /\ RunIdle
    /\ SnifferIdle
    /\ given = [pkts |-> 0, bytes |-> 0]
    /\ got = <<>>

ConserveRoute ==
    /\ got = <<>>
    /\ npkts < MaxConservePkts
    /\ \E pkt \in ConservePackets :
          /\ LET r == RouteInto(open, finalized, idle, pkt, ConserveKeyOf(pkt)) IN
             /\ open' = r.open
             /\ finalized' = r.finalized
          /\ given' = [pkts |-> given.pkts + 1, bytes |-> given.bytes + pkt.length]
    /\ npkts' = npkts + 1
    /\ UNCHANGED <<idle, returned, routed, closed, gateVars, runVars, got, sniffVars>>

\* finalize_all, which ends the shard's use.
ConserveFinalize ==
    /\ got = <<>>
    /\ LET r == finalize_all(open, finalized) IN
       /\ open' = r.open
       /\ finalized' = r.finalized
       /\ returned' = r.out
    /\ got' = <<given, sniffVars>>
    /\ given' = [pkts |-> 0, bytes |-> 0]
    /\ UNCHANGED <<idle, routed, closed, npkts, gateVars, runVars, sniffVars>>

ConserveNext == ConserveRoute \/ ConserveFinalize

SpecConserve == ConserveInit /\ [][ConserveNext]_vars

\* --------------------------------------------- specification SpecQuantize
\* quantize_tokens called once on the primitives of a finalized group:
\* counters and flag counts that are not negative, a duration of 0, half a
\* second, one second and more.

\* Durations in half seconds: 0, 0.5, 1, 1.5, 2 and 4 seconds.
DurationHalves == {0, 1, 2, 3, 4, 8}

QuantizeInputs ==
    [counts : [pkts_up : {0, 1, 3}, pkts_dn : {0, 2}, bytes_up : {0, 60, 1500},
               bytes_dn : {0, 40}],
     flags : [syn : {0, 1, 5}, ack : {0, 2}, rst : {0, 1}, fin : {0, 1}],
     duration_halves : DurationHalves,
     count_log_base : {2, 3},
     duration_log_base : {2, 3}]

QuantizeInit ==
    /\ ShardIdle
    /\ GateIdle
    /\ RunIdle
    /\ SnifferIdle
    /\ given \in QuantizeInputs
    /\ got = <<>>

QuantizeCall ==
    /\ got = <<>>
    /\ got' = <<quantize_tokens(given.counts, given.duration_halves,
                                given.flags, given.count_log_base,
                                given.duration_log_base)>>
    /\ UNCHANGED <<shardVars, gateVars, runVars, given, sniffVars>>

SpecQuantize == QuantizeInit /\ [][QuantizeCall]_vars

\* ---------------------------------------------- specification SpecSniffer
\* One SnifferManager whose start() and stop() are called at any time by the
\* request handlers of the web application, and the runner threads start()
\* spawns.  A block under "with self._lock" is one step; outside the lock
\* every statement of the runner that reads or writes the manager or a
\* sniffer is a step of its own.

\* Runner threads start() spawns in one behaviour.
MaxThreads == 2

\* PacketSniffer objects the runners make in one behaviour.
MaxSniffers == 3

\* A runner thread that has not yet made its first sniffer.
NewThread == [pc |-> "make", snf |-> 0]

\* Where thread t stands becomes pc.
Goto(t, pc_) == threads' = [threads EXCEPT ![t].pc = pc_]

\* SnifferManager.start: refused while active; otherwise the manager is
\* marked active, the error is cleared and a runner thread is started.
start ==
    /\ Len(threads) < MaxThreads
    /\ IF active
       THEN UNCHANGED <<active, error, threads, stopped, late>>
       ELSE /\ active' = TRUE
            /\ error' = FALSE
            /\ threads' = Append(threads, NewThread)
            /\ stopped' = FALSE
            /\ late' = FALSE
    /\ UNCHANGED <<sniffer, stop_sniffing>>
    /\ UNCHANGED <<shardVars, gateVars, runVars, callVars>>

\* SnifferManager.stop: returns 0 when the manager is not active or has no
\* sniffer; otherwise sets the stop flag of the sniffer the manager refers
\* to and marks the manager inactive.
stop ==
    /\ IF ~active \/ sniffer = 0
       THEN UNCHANGED <<active, stop_sniffing, stopped>>
       ELSE /\ stop_sniffing' = [stop_sniffing EXCEPT ![sniffer] = TRUE]
            /\ active' = FALSE
            /\ stopped' = TRUE
    /\ UNCHANGED <<error, sniffer, threads, late>>
    /\ UNCHANGED <<shardVars, gateVars, runVars, callVars>>

\* runner, line 85: self.sniffer = PacketSniffer(iface, self.logger); the
\* constructor sets stop_sniffing to False.
RunnerMake ==
    /\ Len(stop_sniffing) < MaxSniffers
    /\ \E t \in 1..Len(threads) :
          /\ threads[t].pc = "make"
          /\ stop_sniffing' = Append(stop_sniffing, FALSE)
          /\ sniffer' = Len(stop_sniffing) + 1
          /\ Goto(t, "clear")
    /\ UNCHANGED <<active, error, stopped, late>>
    /\ UNCHANGED <<shardVars, gateVars, runVars, callVars>>

\* runner, line 86: self.sniffer.stop_sniffing = False.
RunnerClear ==
    /\ \E t \in 1..Len(threads) :
          /\ threads[t].pc = "clear"
          /\ stop_sniffing' = [stop_sniffing EXCEPT ![sniffer] = FALSE]
          /\ Goto(t, "call")
    /\ UNCHANGED <<active, error, sniffer, stopped, late>>
    /\ UNCHANGED <<shardVars, gateVars, runVars, callVars>>

\* runner, line 89: self.sniffer.capture_packets(...) is entered, on the
\* sniffer the manager refers to at this moment: a capture segment begins.
RunnerCall ==
    /\ \E t \in 1..Len(threads) :
          /\ threads[t].pc = "call"
          /\ threads' = [threads EXCEPT ![t] = [pc |-> "reset", snf |-> sniffer]]
    /\ late' = (late \/ stopped)
    /\ UNCHANGED <<active, error, sniffer, stop_sniffing, stopped>>
    /\ UNCHANGED <<shardVars, gateVars, runVars, callVars>>

\* capture_packets, line 103: self.stop_sniffing = False.
RunnerReset ==
    /\ \E t \in 1..Len(threads) :
          /\ threads[t].pc = "reset"
          /\ stop_sniffing' = [stop_sniffing EXCEPT ![threads[t].snf] = FALSE]
          /\ Goto(t, "sniff")
    /\ UNCHANGED <<active, error, sniffer, stopped, late>>
    /\ UNCHANGED <<shardVars, gateVars, runVars, callVars>>

\* capture_packets, lines 113-140: sniff returns, when its timeout elapses
\* or when a packet arrives and the stop flag is set, and the capture is
\* written; runner, lines 92-93, records the file.
RunnerSniffEnds ==
    /\ \E t \in 1..Len(threads) :
          /\ threads[t].pc = "sniff"
          /\ Goto(t, "check")
    /\ UNCHANGED <<active, error, sniffer, stop_sniffing, stopped, late>>
    /\ UNCHANGED <<shardVars, gateVars, runVars, callVars>>

\* runner, line 98: if getattr(self.sniffer, "stop_sniffing", False).
RunnerCheck ==
    /\ \E t \in 1..Len(threads) :
          /\ threads[t].pc = "check"
          /\ Goto(t, IF stop_sniffing[sniffer] THEN "halt" ELSE "next")
    /\ UNCHANGED <<active, error, sniffer, stop_sniffing, stopped, late>>
    /\ UNCHANGED <<shardVars, gateVars, runVars, callVars>>

\* runner, lines 99-101: self.active = False under the lock, and break.
RunnerHalt ==
    /\ \E t \in 1..Len(threads) :
          /\ threads[t].pc = "halt"
          /\ Goto(t, "done")
    /\ active' = FALSE
    /\ UNCHANGED <<error, sniffer, stop_sniffing, stopped, late>>
    /\ UNCHANGED <<shardVars, gateVars, runVars, callVars>>

\* runner, lines 104-108: under the lock, leave the loop inactive if an
\* error was set, otherwise self.active = True and the next segment.
RunnerNext ==
    /\ \E t \in 1..Len(threads) :
          /\ threads[t].pc = "next"
          /\ Goto(t, IF error THEN "done" ELSE "make")
    /\ active' = ~error
    /\ UNCHANGED <<error, sniffer, stop_sniffing, stopped, late>>
    /\ UNCHANGED <<shardVars, gateVars, runVars, callVars>>

\* runner, lines 110-119: the PacketSniffer constructor or capture_packets
\* raised (unknown interface, no permission to capture, file not written);
\* the handler sets the error and marks the manager inactive.
RunnerRaises ==
    /\ \E t \in 1..Len(threads) :
          /\ threads[t].pc \in {"make", "sniff"}
          /\ Goto(t, "done")
    /\ error' = TRUE
    /\ active' = FALSE
    /\ UNCHANGED <<sniffer, stop_sniffing, stopped, late>>
    /\ UNCHANGED <<shardVars, gateVars, runVars, callVars>>

SnifferInit == ShardIdle /\ GateIdle /\ RunIdle /\ CallIdle /\ SnifferIdle

SnifferNext ==
    \/ start
    \/ stop
    \/ RunnerMake
    \/ RunnerClear
    \/ RunnerCall
    \/ RunnerReset
    \/ RunnerSniffEnds
    \/ RunnerCheck
    \/ RunnerHalt
    \/ RunnerNext
    \/ RunnerRaises

SpecSniffer == SnifferInit /\ [][SnifferNext]_vars

\* --------------------------------------------- specification SpecValidate
\* validate_segment called once on a segment handle, for every state of the
\* file it refers to.

FileSizes == {0, 10, 23, 24, 100}

FileHeads ==
    { MAGIC_PCAP_USEC_BE, MAGIC_PCAP_USEC_LE, MAGIC_PCAP_NSEC_BE,
      MAGIC_PCAP_NSEC_LE, MAGIC_PCAPNG, MAGIC_GZIP \o <<8, 0>>, MAGIC_ZSTD,
      <<0, 0, 0, 0>> }

\* An empty file has no leading bytes.
Files ==
    { File(e, sz, IF sz = 0 THEN <<>> ELSE h) :
        e \in BOOLEAN, sz \in FileSizes, h \in FileHeads }

Compressors == {"none", "gzip", "zstd", "lz4"}

ValidateInit ==
    /\ ShardIdle
    /\ GateIdle
    /\ RunIdle
    /\ SnifferIdle
    /\ given \in [file : Files, compressor : Compressors,
                   access : {"ok", "denied", "removed"}]
    /\ got = <<>>

\* The call; got holds its outcome.
ValidateCall ==
    /\ got = <<>>
    /\ got' = <<validate_segment_outcome(given.file, given.compressor,
                                         given.access)>>
    /\ UNCHANGED <<shardVars, gateVars, runVars, given, sniffVars>>

SpecValidate == ValidateInit /\ [][ValidateCall]_vars

\* --------------------------------------------- specification SpecSampling
\* apply_http_binomial_sampling called once on a token list, for every
\* budget and every outcome of the random draws.

Lexicon == {"or", "union"}

TokenChoices == Lexicon \cup {"a", "b"}

TokenLists == UNION { [1..n -> TokenChoices] : n \in 0..MaxTokens }

SamplingInit ==
    /\ ShardIdle
    /\ GateIdle
    /\ RunIdle
    /\ SnifferIdle
    /\ given \in [tokens : TokenLists, budget : 0..MaxBudget,
                   always_keep : {Lexicon, {}}]
    /\ got = <<>>

\* The call; got holds its outcome.
SamplingApply ==
    /\ got = <<>>
    /\ \E draws \in [1..Len(given.tokens) -> BOOLEAN] :
          got' = <<apply_http_binomial_sampling(given.tokens, given.budget,
                                                given.always_keep, draws)>>
    /\ UNCHANGED <<shardVars, gateVars, runVars, given, sniffVars>>

SpecSampling == SamplingInit /\ [][SamplingApply]_vars

\* ------------------------------------------------ properties of the shard

\* The timestamps of the packets a history routed to key k, in arrival order.
TsOf(h, k) ==
    LET sel == SelectSeq(h, LAMBDA e : e[1] = k)
    IN  [i \in 1..Len(sel) |-> sel[i][2]]

NonDecreasing(ts) == \A i \in 1..(Len(ts) - 1) : ts[i] <= ts[i + 1]

\* Number of inter-packet gaps of ts that exceed idl.
IdleGaps(ts, idl) ==
    Cardinality({ i \in 1..(Len(ts) - 1) : ts[i + 1] - ts[i] > idl })

AggsOf(list, k) == SelectSeq(list, LAMBDA a : a.key = k)

PktCounts(list) == [i \in 1..Len(list) |-> list[i].pkts_up + list[i].pkts_dn]

\* Two closed intervals [first_ts, last_ts] share no instant.
SpansDisjoint(a, b) == a.last_ts < b.first_ts \/ b.last_ts < a.first_ts

\* Every two aggregates of a list that have the same key have disjoint spans.
PairwiseDisjoint(list) ==
    \A i \in 1..Len(list), j \in 1..Len(list) :
        (i < j /\ list[i].key = list[j].key) => SpansDisjoint(list[i], list[j])

\* C1: a history of one key with non-decreasing timestamps and exactly one
\* gap longer than idle_split_seconds is returned by finalize_all as exactly
\* two aggregates of that key, whose packet counts add up to the number of
\* packets routed and whose [first_ts, last_ts] spans do not overlap.
C1_IdleRollCorrect ==
    \A k \in ShardKeys :
        LET ts == TsOf(closed, k)
            as == AggsOf(returned, k)
        IN  (NonDecreasing(ts) /\ IdleGaps(ts, idle) = 1)
            => /\ Len(as) = 2
               /\ SumSeq(PktCounts(as)) = Len(ts)
               /\ SpansDisjoint(as[1], as[2])

\* C1's case: three or more packets in order, one long gap, finalized.
C1_Witness ==
    \E k \in ShardKeys :
        LET ts == TsOf(closed, k) IN
        /\ Len(ts) >= 3
        /\ NonDecreasing(ts)
        /\ IdleGaps(ts, idle) = 1
        /\ \E i \in 1..(Len(ts) - 1) : ts[i + 1] - ts[i] = idle
        /\ Len(AggsOf(returned, k)) = 2

\* C9: at every point of a run and for every arrival order, the aggregates of
\* one key (closed slices and the open one) have pairwise disjoint spans.
C9_SlicesNeverOverlap == PairwiseDisjoint(finalized \o open)

\* C10: every aggregate the shard holds or has returned has
\* first_ts <= last_ts.
C10_FirstLeLast ==
    \A a \in Range(finalized \o open \o returned) : a.first_ts <= a.last_ts

\* C10's case: an aggregate that took a packet older than one it already had.
C10_Witness ==
    \E a \in Range(open) :
        LET ts == TsOf(routed, a.key) IN
        /\ a.pkts_up + a.pkts_dn >= 2
        /\ a.first_ts < a.last_ts
        /\ ts[Len(ts)] < a.last_ts
        /\ ts[Len(ts)] = a.first_ts

\* The keys of the dict's entries are pairwise different.
OneOpenPerKey ==
    \A i \in 1..Len(open), j \in 1..Len(open) :
        open[i].key = open[j].key => i = j

\* A step that routes a packet of key k at ts: when k has an open aggregate
\* and ts is more than idle after its last_ts, that aggregate is appended to
\* the finalized list as it stands, and in the same step the new slice,
\* holding the packet alone, takes its place in the dict, every other entry
\* staying as it is; in every other routing step the finalized list is left
\* alone.
RollMovesAndReplaces ==
    (routed' # routed /\ routed' # <<>>) =>
        LET k == routed'[Len(routed')][1]
            ts == routed'[Len(routed')][2]
            i == EntryIndex(open, k)
        IN  IF i > 0 /\ ts - open[i].last_ts > idle
            THEN /\ finalized' = Append(finalized, open[i])
                 /\ Len(open') = Len(open)
                 /\ \A j \in 1..Len(open) : j # i => open'[j] = open[j]
                 /\ open'[i].key = k
                 /\ open'[i].first_ts = ts
                 /\ open'[i].last_ts = ts
                 /\ open'[i].pkts_up + open'[i].pkts_dn = 1
            ELSE finalized' = finalized

\* C11: in every reachable state of the shard no two open aggregates have
\* the same key, and an idle roll moves the old aggregate of the key to the
\* finalized list and puts the new slice in its place in the same step.
C11_OneOpenPerKey == []OneOpenPerKey /\ [][RollMovesAndReplaces]_vars

\* C11's case: a key has been rolled, its new slice is open and the other
\* key is open beside it.
C11_Witness ==
    /\ Len(open) = 2
    /\ \E a \in Range(finalized), b \in Range(open) :
          a.key = b.key /\ b.first_ts - a.last_ts > idle

\* C12: finalize_all returns every aggregate created since the shard was
\* built or last finalized exactly once: the packets of every key routed
\* since then are all counted in the returned aggregates of that key, once,
\* and no returned aggregate is empty or a copy of another; afterwards the
\* shard holds no open and no finalized aggregate, and a finalize_all that
\* follows at once returns nothing.
C12_FinalizeReturnsAllOnce ==
    /\ routed = <<>> => (open = <<>> /\ finalized = <<>>)
    /\ \A k \in ShardKeys :
          SumSeq(PktCounts(AggsOf(returned, k))) = Len(TsOf(closed, k))
    /\ \A a \in Range(returned) : a.key \in ShardKeys /\ a.pkts_up + a.pkts_dn >= 1
    /\ \A k \in ShardKeys :
          SumSeq(PktCounts(AggsOf(finalized \o open, k))) = Len(TsOf(routed, k))
    /\ closed = <<>> => returned = <<>>

\* C12's case: finalize_all has returned an idle-rolled slice and two
\* aggregates that were still open, one of them not idle at all.
C12_Witness ==
    /\ routed = <<>>
    /\ Len(returned) = 3
    /\ \E i, j \in 1..Len(returned) :
          /\ i < j
          /\ returned[i].key = returned[j].key
          /\ returned[j].first_ts - returned[i].last_ts > idle
    /\ closed[Len(closed)][2] = MaxTs

\* The two packets agree on source IP, destination IP, destination port and
\* transport and come from different source ports.
SameGroupOtherPort(p, q) ==
    /\ p.src_ip = q.src_ip
    /\ p.dst_ip = q.dst_ip
    /\ p.dst_port = q.dst_port
    /\ p.transport = q.transport
    /\ p.src_port # q.src_port

\* C13: two in-window packets that differ in source port but agree on source
\* IP, destination IP, destination port and transport are routed under the
\* same key, and when the second does not come more than idle after the
\* first they are counted in one aggregate, the only one the shard holds.
C13_SourcePortNotInKey ==
    (/\ Len(given) = 2
     /\ npkts = 2
     /\ SameGroupOtherPort(given[1], given[2])
     /\ in_window(given[1].ts, HourStart, HourEnd)
     /\ in_window(given[2].ts, HourStart, HourEnd))
    => /\ Len(got) = 2
       /\ got[1] = got[2]
       /\ (given[2].ts - given[1].ts <= idle) =>
              /\ finalized = <<>>
              /\ Len(open) = 1
              /\ open[1].key = got[1]
              /\ open[1].pkts_up = 2
              /\ open[1].bytes_up = given[1].length + given[2].length

\* C13's case: both packets are routed, the second later than the first
\* from another source port, and one aggregate holds both.
C13_Witness ==
    /\ Len(given) = 2
    /\ npkts = 2
    /\ SameGroupOtherPort(given[1], given[2])
    /\ given[1].ts < given[2].ts
    /\ Len(got) = 2
    /\ Len(open) = 1
    /\ open[1].pkts_up = 2

\* The first n elements of a sequence, all of it when it is shorter.
FirstN(seq, n) == SubSeq(seq, 1, IF Len(seq) < n THEN Len(seq) ELSE n)

\* C14: after any sequence of update_aggregate calls the preview buffer of
\* each direction holds at most the cap of entries, and it is exactly the
\* first cap non-empty previews of that direction in arrival order: nothing
\* is appended at the cap and nothing is evicted.
C14_PreviewBufferCapped ==
    /\ Len(got.payload_up) <= _MAX_PREVIEWS_PER_DIR
    /\ Len(got.payload_dn) <= _MAX_PREVIEWS_PER_DIR
    /\ got.payload_up = FirstN(NonEmpty(given.up), _MAX_PREVIEWS_PER_DIR)
    /\ got.payload_dn = FirstN(NonEmpty(given.dn), _MAX_PREVIEWS_PER_DIR)

\* C14's case: both directions were offered more previews than the cap, one
\* of them with a packet without preview among the first, and both buffers
\* are full.
C14_Witness ==
    /\ Len(NonEmpty(given.up)) > _MAX_PREVIEWS_PER_DIR
    /\ Len(NonEmpty(given.dn)) > _MAX_PREVIEWS_PER_DIR
    /\ \E i \in 1..Len(given.up) : i < _MAX_PREVIEWS_PER_DIR /\ given.up[i] = ""
    /\ Len(got.payload_up) = _MAX_PREVIEWS_PER_DIR
    /\ Len(got.payload_dn) = _MAX_PREVIEWS_PER_DIR
    /\ got.pkts_dn > _MAX_PREVIEWS_PER_DIR

\* ---------------------------------------------- properties of the window

\* C20: in_window(ts, start, end) is true exactly when start <= ts < end;
\* of two adjacent windows [a, b) and [b, c) exactly one holds a timestamp
\* of [a, c), and a packet stamped exactly b is not processed in [a, b).
C20_WindowHalfOpen ==
    got # <<>> =>
        LET ts == given.ts
            a == 2 * given.a
            b == 2 * given.b
            c == 2 * given.c
        IN  /\ got[1].first = (a <= ts /\ ts < b)
            /\ got[1].second = (b <= ts /\ ts < c)
            /\ (a <= ts /\ ts < c) => (got[1].first # got[1].second)
            /\ ~(a <= ts /\ ts < c) => (~got[1].first /\ ~got[1].second)
            /\ ts = b => (~got[1].first /\ open = <<>> /\ npkts = 0)
            /\ got[1].first = (Len(open) = 1)

\* C20's case: the timestamp is the bound the two non-empty windows share;
\* the second window has it, the first has not.
C20_Witness ==
    /\ got # <<>>
    /\ given.a < given.b
    /\ given.b < given.c
    /\ given.ts = 2 * given.b
    /\ got[1].second
    /\ ~got[1].first
    /\ open = <<>>

\* ------------------------------------------ properties of quantization

\* The order-preserving part of the quantization contract: the bin of the
\* smaller count is at most the bin of the larger, and the bin of 0 is 0.
LogBinMonotone ==
    got # <<>> =>
        /\ got[1] <= got[2]
        /\ given.x1 = 0 => got[1] = 0

\* C21: for every log base above 1 and counts x1 < x2 the bin of x1 is at
\* most the bin of x2, the bin of 0 is 0, and the bin of a positive count
\* is floor(log_base(x)).
C21_LogBinMonotoneAndExact ==
    got # <<>> =>
        /\ got[1] <= got[2]
        /\ given.x1 = 0 => got[1] = 0
        /\ given.x1 > 0 => got[1] = FloorLog(given.x1, given.base)
        /\ got[2] = FloorLog(given.x2, given.base)

\* ------------------------------------------ properties of the enrichment

\* The enrichment fields an aggregate has set.
FieldsSet(agg) ==
    (IF agg.http_uri_tokens # <<>> THEN {"http"} ELSE {})
    \cup (IF agg.ftp_cmd_counts # <<>> THEN {"ftp"} ELSE {})
    \cup (IF agg.smb_cmd_counts # <<>> THEN {"smb"} ELSE {})

\* C22: enrich_group sets at most one of the three enrichment fields, the
\* one of the key's service label, and flags exactly what it set; on an
\* aggregate with no preview in either direction it changes nothing, leaves
\* the three fields absent and returns all flags false.
C22_OneStrategyPerService ==
    got # <<>> =>
        LET set == FieldsSet(got[1].agg) IN
        /\ Cardinality(set) <= 1
        /\ set \subseteq {given.key.service}
        /\ \A f \in {"http", "ftp", "smb"} : got[1].updated[f] <=> f \in set
        /\ (given.payload_up = <<>> /\ given.payload_dn = <<>>) =>
               /\ got[1].agg = given
               /\ set = {}

\* An ftp group whose previews hold an HTTP request line as well as FTP
\* commands got its command counts and nothing else.
C22_Witness ==
    /\ got # <<>>
    /\ given.key.service = "ftp"
    /\ PreviewHttp \in Range(given.payload_up)
    /\ PreviewFtp \in Range(given.payload_dn)
    /\ FieldsSet(got[1].agg) = {"ftp"}
    /\ got[1].agg.ftp_cmd_counts[1]["USER"] = 1

\* -------------------------------------------- properties of the idle roll

\* The aggregate of RollKey in the shard get_or_create was called on.
RollOld == LET op == RollBefore(given).open IN op[EntryIndex(op, RollKey)]

\* get_or_create rolled: the open aggregate of RollKey is another one and
\* the finalized list grew by the old one.
Rolled ==
    LET before == RollBefore(given)
        i == EntryIndex(before.open, RollKey)
    IN  /\ got[1].finalized = Append(before.finalized, RollOld)
        /\ Len(got[1].open) = Len(before.open)
        /\ \A j \in 1..Len(before.open) :
              j # i => got[1].open[j] = before.open[j]
        /\ got[1].open[i].key = RollKey
        /\ got[1].open[i].first_ts = given.ts
        /\ got[1].open[i].last_ts = given.ts
        /\ got[1].open[i].pkts_up = 0
        /\ got[1].open[i].pkts_dn = 0
        /\ got[1].open[i].bytes_up = 0
        /\ got[1].open[i].bytes_dn = 0
        /\ got[1].open[i].tcp_flags = [syn |-> 0, ack |-> 0, rst |-> 0, fin |-> 0]

\* get_or_create returned the aggregate that was open and changed nothing.
Joined ==
    /\ got[1].open = RollBefore(given).open
    /\ got[1].finalized = RollBefore(given).finalized

\* C23: get_or_create rolls the open aggregate of a key exactly when
\* ts - last_ts is strictly greater than idle_split_seconds; at a gap of
\* exactly idle_split_seconds, a smaller one or a timestamp before last_ts
\* the packet joins the aggregate; a roll appends the old aggregate to the
\* finalized list and opens one with first_ts = last_ts = ts and all
\* counters zero.
C23_RollIffIdleExceeded ==
    got # <<>> =>
        IF given.ts - RollOld.last_ts > given.idle THEN Rolled ELSE Joined

\* A roll at the smallest gap that rolls, of an aggregate that had counted
\* packets in both directions.
C23_Witness ==
    /\ got # <<>>
    /\ given.ts - RollOld.last_ts = given.idle + 1
    /\ RollOld.pkts_up = 1
    /\ RollOld.pkts_dn = 1
    /\ Rolled
    /\ ~Joined

\* A packet exactly idle_split_seconds after last_ts joined.
JoinedAtIdle ==
    /\ got # <<>>
    /\ given.idle > 0
    /\ given.ts - RollOld.last_ts = given.idle
    /\ Joined
    /\ ~Rolled

\* ----------------------------------------- properties of the observation

\* The gate has one entry, that of the packet's source, and it holds the
\* packet's destination IP and port.
PacketSourceCredited ==
    /\ Len(got[1]) = 1
    /\ got[1][1].src = given.pkt.src_ip
    /\ got[1][1].unique_dsts = {given.pkt.dst_ip}
    /\ got[1][1].unique_ports = {given.pkt.dst_port}
    /\ got[1][1].sample_targets = <<<<given.pkt.dst_ip, given.pkt.dst_port>>>>

\* Under the key of its own five-tuple a packet is counted for its source.
OwnKeyCreditsPacketSource ==
    (got # <<>> /\ given.key = "own") => PacketSourceCredited

\* C24: after observe_packet(pkt, key) the entry that gained the packet's
\* destination IP and destination port is the one of the packet's source
\* IP, for every key the packet may be routed under, the key whose src_ip
\* is the packet's destination included.
C24_PacketSourceIsObserved ==
    got # <<>> => PacketSourceCredited

\* ---------------------------------------- properties of the SYN-only ratio

\* The TCP packets observed from a source, and those of them with SYN set
\* and ACK clear.
TcpSeen(src) ==
    Cardinality({ j \in 1..Len(given) :
                    given[j].src_ip = src /\ given[j].tcp_flags # <<>> })

SynOnlySeen(src) ==
    Cardinality({ j \in 1..Len(given) :
                    /\ given[j].src_ip = src
                    /\ given[j].tcp_flags # <<>>
                    /\ BitSet(given[j].tcp_flags[1], _TCP_SYN)
                    /\ ~BitSet(given[j].tcp_flags[1], _TCP_ACK) })

\* C25: for every source syn_only_pkts is the number of observed TCP
\* packets with SYN set and ACK clear and tcp_pkts the number of observed
\* TCP packets, so 0 <= syn_only_pkts <= tcp_pkts; the ratio the split uses
\* is syn_only_pkts / tcp_pkts, and 0 for a source with no TCP packet, so it
\* lies between 0 and 1.
C25_SynOnlyCountsAndRatio ==
    \A i \in 1..Len(by_src) :
        LET s == by_src[i]
            r == SynOnlyRatio(s)
        IN  /\ s.tcp_pkts = TcpSeen(s.src)
            /\ s.syn_only_pkts = SynOnlySeen(s.src)
            /\ 0 <= s.syn_only_pkts
            /\ s.syn_only_pkts <= s.tcp_pkts
            /\ r = IF TcpSeen(s.src) > 0
                   THEN <<SynOnlySeen(s.src), TcpSeen(s.src)>> ELSE <<0, 1>>
            /\ r[2] > 0
            /\ 0 <= r[1]
            /\ r[1] <= r[2]

\* One source sent a SYN, a SYN+ACK and a bare ACK (ratio 1/3), the other
\* one packet that is not TCP (ratio 0).
C25_Witness ==
    /\ Len(by_src) = 2
    /\ \E i \in 1..2 :
          /\ by_src[i].tcp_pkts = 3
          /\ by_src[i].syn_only_pkts = 1
          /\ SynOnlyRatio(by_src[i]) = <<1, 3>>
          /\ \E j \in 1..Len(given) :
                /\ given[j].src_ip = by_src[i].src
                /\ given[j].tcp_flags = <<_TCP_SYN + _TCP_ACK>>
    /\ \E i \in 1..2 :
          /\ by_src[i].tcp_pkts = 0
          /\ SynOnlyRatio(by_src[i]) = <<0, 1>>

\* ------------------------------------ properties of the per-packet update

\* 1 when the bit is set in the packet's flags, 0 when it is not.
FlagBit(pkt, mask) == IF BitSet(pkt.tcp_flags[1], mask) THEN 1 ELSE 0

\* C26: update_aggregate adds 1 to the packet counter and the packet length
\* to the byte counter of one direction and leaves the other direction as
\* it was; the direction is dn when the packet's (src_ip, dst_ip) is the
\* key's (dst_ip, src_ip) and up for the key's own pair and for every other
\* pair; on a TCP packet each of syn, ack, rst, fin grows by 1 exactly when
\* its bit is set, and on a packet that is not TCP no flag counter changes.
C26_OneDirectionAndFlags ==
    got # <<>> =>
        LET a0 == given.agg
            a1 == got[1]
            pkt == given.pkt
            dn == /\ pkt.src_ip = a0.key.dst_ip
                  /\ pkt.dst_ip = a0.key.src_ip
        IN  /\ IF dn
               THEN /\ a1.pkts_dn = a0.pkts_dn + 1
                    /\ a1.bytes_dn = a0.bytes_dn + pkt.length
                    /\ a1.pkts_up = a0.pkts_up
                    /\ a1.bytes_up = a0.bytes_up
               ELSE /\ a1.pkts_up = a0.pkts_up + 1
                    /\ a1.bytes_up = a0.bytes_up + pkt.length
                    /\ a1.pkts_dn = a0.pkts_dn
                    /\ a1.bytes_dn = a0.bytes_dn
            /\ IF pkt.tcp_flags = <<>>
               THEN a1.tcp_flags = a0.tcp_flags
               ELSE /\ a1.tcp_flags.syn = a0.tcp_flags.syn + FlagBit(pkt, 2)
                    /\ a1.tcp_flags.ack = a0.tcp_flags.ack + FlagBit(pkt, 16)
                    /\ a1.tcp_flags.rst = a0.tcp_flags.rst + FlagBit(pkt, 4)
                    /\ a1.tcp_flags.fin = a0.tcp_flags.fin + FlagBit(pkt, 1)

\* A SYN+ACK of 60 bytes in the dn direction was added to an aggregate that
\* had counted before.
C26_Witness ==
    /\ got # <<>>
    /\ given.pkt.src_ip = "10.0.0.2"
    /\ given.pkt.dst_ip = "10.0.0.1"
    /\ given.pkt.tcp_flags = <<_TCP_SYN + _TCP_ACK>>
    /\ given.pkt.length = 60
    /\ given.agg.pkts_dn = 1
    /\ got[1].pkts_dn = 2
    /\ got[1].bytes_dn = 100
    /\ got[1].pkts_up = 2
    /\ got[1].tcp_flags = [syn |-> 2, ack |-> 3, rst |-> 0, fin |-> 1]

\* ------------------------------------------- properties of conservation

ByteCounts(list) == [i \in 1..Len(list) |-> list[i].bytes_up + list[i].bytes_dn]

\* C27: the aggregates finalize_all returns hold, over both directions, as
\* many packets as were routed and as many bytes as their lengths add up
\* to, whatever the keys, the idle rolls and the order of arrival.
C27_PacketsAndBytesConserved ==
    got # <<>> =>
        /\ SumSeq(PktCounts(returned)) = got[1].pkts
        /\ SumSeq(ByteCounts(returned)) = got[1].bytes

\* Three packets of one key, out of order, in both directions and of both
\* lengths, were returned as two slices.
C27_Witness ==
    /\ got # <<>>
    /\ got[1] = [pkts |-> 3, bytes |-> 62]
    /\ Len(returned) = 2
    /\ returned[1].key = returned[2].key
    /\ returned[2].first_ts < returned[2].last_ts
    /\ returned[1].last_ts > returned[2].first_ts
    /\ \E i \in 1..2 : returned[i].pkts_dn = 1

\* ------------------------------------------------ properties of the tokens

TokenKeys ==
    { "pkts_up_bin", "pkts_dn_bin", "bytes_up_bin", "bytes_dn_bin", "dur_bin",
      "syn_bin", "ack_bin", "rst_bin", "fin_bin" }

\* The nine keys, and each flag bin the count of its flag.
NineKeysAndFlagBins ==
    /\ DOMAIN got[1] = TokenKeys
    /\ got[1].syn_bin = given.flags.syn
    /\ got[1].ack_bin = given.flags.ack
    /\ got[1].rst_bin = given.flags.rst
    /\ got[1].fin_bin = given.flags.fin

\* For a duration of 0 or of a second and more no token is negative.
TokensOfWholeSeconds ==
    (got # <<>> /\ given.duration_halves \notin {1}) =>
        /\ NineKeysAndFlagBins
        /\ \A k \in TokenKeys : got[1][k] \in Nat

\* C28: for counters and flag counts that are not negative and any duration
\* from 0 up, durations between 0 and 1 second included, quantize_tokens
\* returns the nine keys, each flag bin is its flag count, and every token
\* is an integer that is not negative.
C28_NineNonNegativeTokens ==
    got # <<>> =>
        /\ NineKeysAndFlagBins
        /\ \A k \in TokenKeys : got[1][k] \in Nat

\* ------------------------------------------ properties of rolling capture

\* The runner threads that have not left their capture loop.
InLoop == { t \in 1..Len(threads) : threads[t].pc # "done" }

\* C29: once stop() has signalled a stop on an active manager and returned,
\* no capture segment is begun and active stays false until the next
\* start(), wherever the runner thread stood when stop() was called.
C29_StopIsFinal == stopped => (~active /\ ~late)

\* C30: at most one runner thread is in its capture loop at any time:
\* start() spawns no thread while an earlier one has not left its loop.
C30_OneCaptureThread == Cardinality(InLoop) <= 1

\* --------------------------------------- properties of the configuration

\* C19: an out-of-range knob makes the construction of the configuration
\* fail, so that no run starts and no segment is fetched, and no component
\* puts an in-range value in the place of an out-of-range one: _log_bin
\* works with the base it was given.
C19_OutOfRangeKnobIsFatal ==
    /\ (got.config # <<>> /\ ~KnobsInRange(given.knobs)) =>
           /\ got.config[1].error
           /\ pc = "idle"
           /\ seg_i = 0
    /\ got.bin # <<>> => got.bin[1].base = given.knobs.count_log_base

\* ------------------------------------------- properties of the validator

\* The leading bytes are those of the format the handle declares.
MagicMatches(head, compressor) ==
    \/ compressor = "none"
       /\ Len(head) >= 4
       /\ SubSeq(head, 1, 4) \in { MAGIC_PCAP_USEC_BE, MAGIC_PCAP_USEC_LE,
                                    MAGIC_PCAP_NSEC_BE, MAGIC_PCAP_NSEC_LE,
                                    MAGIC_PCAPNG }
    \/ compressor = "gzip" /\ Len(head) >= 2 /\ SubSeq(head, 1, 2) = MAGIC_GZIP
    \/ compressor = "zstd" /\ Len(head) >= 4 /\ SubSeq(head, 1, 4) = MAGIC_ZSTD

\* C18: validate_segment never raises: it returns false for a file that is
\* missing, unreadable, removed between the size check and the read,
\* shorter than 24 bytes or of the wrong magic, and true for a file of at
\* least 24 bytes whose leading bytes match the declared format.
C18_ValidateNeverRaises ==
    got # <<>> =>
        LET f == given.file
            good == /\ f.exists
                    /\ given.access = "ok"
                    /\ f.size >= 24
                    /\ MagicMatches(f.magic, given.compressor)
        IN  got[1] = IF good THEN "true" ELSE "false"

\* ------------------------------------------------ properties of sampling

\* Number of tokens of the given list that are in the always-keep set.
AlwaysKeepCount == Len(PartitionTokens(given.tokens, given.always_keep, TRUE))

\* The list after the call has at most budget tokens and holds every
\* always-keep token the given list held.
WithinBudgetKeepingLexicon ==
    /\ Len(got[1].tokens) <= given.budget
    /\ \A t \in Range(given.tokens) :
          t \in given.always_keep => t \in Range(got[1].tokens)

\* C16 as stated: for every token list and every budget greater than or
\* equal to the number of always-keep tokens in it, whatever the draws, the
\* list after the call has at most budget tokens and holds every
\* always-keep token of the input.
C16_AsStated ==
    (got # <<>> /\ given.budget >= AlwaysKeepCount)
        => WithinBudgetKeepingLexicon

\* C16, amended: the same for every budget that is at least 1 and at least
\* the number of always-keep tokens of the list.
C16_BudgetGuarantee ==
    (got # <<>> /\ given.budget >= 1 /\ given.budget >= AlwaysKeepCount)
        => WithinBudgetKeepingLexicon

\* C16's case: a list longer than its budget, with always-keep tokens and
\* others, was sampled, and a token that is not always-keep survived.
C16_Witness ==
    /\ got # <<>>
    /\ got[1].applied
    /\ AlwaysKeepCount >= 1
    /\ given.budget >= AlwaysKeepCount
    /\ Len(given.tokens) > given.budget
    /\ \E t \in Range(got[1].tokens) : t \notin given.always_keep

\* C17: for every token list and every budget >= 1, a budget smaller than
\* the number of always-keep tokens included, every always-keep token of
\* the input is in the list after the call.
C17_AlwaysKeepBypassesSampling ==
    (got # <<>> /\ given.budget >= 1)
        => \A t \in Range(given.tokens) :
              t \in given.always_keep => t \in Range(got[1].tokens)

\* ------------------------------------------------- properties of the gate

\* The distinct destinations the history holds for a source.
DstsSeen(src) == { d \in IPs : <<src, d>> \in observed }

\* The destinations the gate holds for a source, none when it has no entry.
UniqueDsts(src) ==
    IF SrcIndex(by_src, src) = 0 THEN {}
    ELSE by_src[SrcIndex(by_src, src)].unique_dsts

\* C15: the fan-out the gate holds for a source is the set of all the
\* destinations observed for it since the start, whatever idle rolls the
\* shard has made meanwhile, and the candidates are the sources whose
\* fan-out exceeds the threshold.
C15_FanOutIgnoresRolls ==
    /\ \A s \in IPs : UniqueDsts(s) = DstsSeen(s)
    /\ Range(candidates(by_src, threshold))
          = { s \in IPs : Cardinality(DstsSeen(s)) > threshold }

\* C15's case: a source has contacted threshold + 1 destinations, one of its
\* aggregates was rolled on the way, and it is a candidate.
C15_Witness ==
    \E s \in IPs :
        /\ threshold >= 1
        /\ Cardinality(DstsSeen(s)) = threshold + 1
        /\ \E a \in Range(finalized) : a.key.src_ip = s
        /\ s \in Range(candidates(by_src, threshold))

\* C5: a source is a candidate if and only if the number of distinct
\* destinations observed for it is strictly greater than the threshold.
C5_CandidateIffOverThreshold ==
    Range(candidates(by_src, threshold))
        = { s \in IPs : Cardinality(DstsSeen(s)) > threshold }

\* C5's case: one source stands exactly at the threshold and is no candidate,
\* another stands at threshold + 1 and is one.
C5_Witness ==
    /\ threshold >= 1
    /\ \E s, t \in IPs :
          /\ Cardinality(DstsSeen(s)) = threshold
          /\ s \notin Range(candidates(by_src, threshold))
          /\ Cardinality(DstsSeen(t)) = threshold + 1
          /\ t \in Range(candidates(by_src, threshold))

\* C6: whatever the classifier answers, the repetitive sources and the
\* outliers a split returns are disjoint and together are exactly the
\* candidates.
C6_SplitPartitionsCandidates ==
    split.called =>
        /\ split.source_ips \cap split.outliers = {}
        /\ split.source_ips \cup split.outliers
               = Range(candidates(by_src, threshold))

\* C6's case: the classifier ran and put sources on both sides.
C6_Witness ==
    /\ split.called
    /\ split.fitted
    /\ split.source_ips # {}
    /\ split.outliers # {}

\* C7: with one or two candidates the classifier is not run, no summary and
\* no repetitive source is returned and every candidate is an outlier; with
\* no candidate both results are empty.
C7_DegenerateFallback ==
    LET cands == candidates(by_src, threshold) IN
    (split.called /\ Len(cands) < 3) =>
        /\ ~split.fitted
        /\ split.summaries = <<>>
        /\ split.source_ips = {}
        /\ split.outliers = Range(cands)

\* C7's case: a split over exactly two candidates.
C7_Witness ==
    /\ split.called
    /\ Len(candidates(by_src, threshold)) = 2
    /\ Cardinality(split.outliers) = 2

\* ------------------------------------------------ properties of run_hour

\* The calls of one kind the sink has received, in order.
Calls(kind) == SelectSeq(sink, LAMBDA e : e.call = kind)

Emitting == pc \in {"emit_groups", "emit_scans", "metrics", "done"}

CanGoOn ==
    /\ pc = "segments" => ENABLED RunFinalize
    /\ pc = "read" => ENABLED RunStreamEnd
    /\ pc = "emit_groups" => ENABLED RunEmitGroups
    /\ pc = "emit_scans" => ENABLED RunEmitScans
    /\ pc = "metrics" => ENABLED RunMetrics
    /\ pc \in {"segments", "read", "emit_groups", "emit_scans", "metrics", "done"}

\* C3: on_metrics is called exactly once per run and after every on_group and
\* on_scan call: no call before the run is done, and when it is done exactly
\* one, the last call the sink received; a run that is not done can go on.
C3_MetricsOnceAndLast ==
    LET M == Calls("on_metrics") IN
    /\ CanGoOn
    /\ pc # "done" => Len(M) = 0
    /\ pc = "done" =>
           /\ Len(M) = 1
           /\ sink[Len(sink)].call = "on_metrics"
           /\ sink[Len(sink)].arg = metrics

\* C3's case: a finished run with group and scan calls before the snapshot.
C3_Witness ==
    /\ pc = "done"
    /\ Len(Calls("on_group")) >= 1
    /\ Len(Calls("on_scan")) >= 1
    /\ Len(Calls("on_metrics")) = 1

C8_OneScanCallPerRepetitiveSource ==
    LET S == Calls("on_scan") IN
    /\ Len(split.summaries) = Cardinality(split.source_ips)
    /\ { split.summaries[i].src_ip : i \in 1..Len(split.summaries) } = split.source_ips
    /\ \A i \in 1..Len(S) : S[i].arg.src_ip \in split.source_ips
    /\ \A i, j \in 1..Len(S) : S[i].arg.src_ip = S[j].arg.src_ip => i = j
    /\ pc \in {"metrics", "done"} =>
           /\ Len(S) = Cardinality(split.source_ips)
           /\ metrics.scans_collapsed = Len(S)

\* C8's case: a finished run with a repetitive source, which got its call,
\* and an outlier, which got none.
C8_Witness ==
    /\ pc = "done"
    /\ split.source_ips # {}
    /\ split.outliers # {}
    /\ Len(Calls("on_scan")) = Cardinality(split.source_ips)

====
